---- MODULE Spec2Model ----
(***************************************************************************)
(* Chat application: the Conversation Store in its two backends (the D1    *)
(* relational tables of lib/database.ts and the Firestore collections of   *)
(* lib/user-chat.ts) and the worker's HTTP routes with the streaming relay *)
(* (worker/index.ts).  Every await of the code is one step of a process,   *)
(* so that concurrent requests interleave where the code can be suspended. *)
(***************************************************************************)
EXTENDS Integers, Sequences, FiniteSets, TLC

\* ------------------------------------------------------------------ bounds
MaxChats == 1          \* chats ever created
MaxMsgs  == 2          \* message rows ever inserted
MaxNow   == 1          \* clock readings 0..MaxNow (milliseconds, scaled)
NProcs   == 2          \* requests / callers in flight
MaxFrags == 2          \* fragments one upstream stream yields
MsPerSec == 2          \* scaled: milliseconds in a second
SecPerDay == 2         \* scaled: seconds in a day
MaxListChats == 2      \* chats ever created where chats are listed
MaxListNow == 2        \* clock readings where chats are listed
MaxHistoryMsgs == 4    \* message rows ever inserted where sends follow one another

Procs   == 1..NProcs
Users   == {"u1", "u2"}
ChatIds == 1..MaxChats
NoChat  == [id |-> 0]

\* what an awaited call gave back
Result(kind, val) == [kind |-> kind, val |-> val]
Threw    == Result("threw", 0)
Ok       == Result("ok", 0)
NoResult == Result("none", 0)

VARIABLES
  backend,    \* "d1" (lib/database.ts) or "firestore" (lib/user-chat.ts)
  now,        \* the wall clock
  chats,      \* table chats / collection user_chats: a set of records
  messages,   \* table messages / collection user_messages: rows in insertion order
  nextChat,   \* number of chat ids generated so far
  nextMsg,    \* number of message ids generated so far
  pc,         \* pc[p]: where process p is suspended
  req,        \* req[p]: arguments and locals of the operation p runs
  out,        \* out[p]: what the call p awaited last gave back
  stream,     \* stream[p]: the event stream of p's response
  inflight,   \* message ids whose deleteDoc was issued and is still in flight
  appended,   \* history: <<message id, chat id>> of the append calls that returned
  disturbed,  \* history: chats that saw a delete call or an append that threw
  deleted,    \* history: chats whose delete call removed the chat record
  users,      \* table users: a set of records
  page        \* the chat page mounted in the browser and its running handlers

vars == <<backend, now, chats, messages, nextChat, nextMsg, pc, req, out, stream,
          inflight, appended, disturbed, deleted, users, page>>

\* ------------------------------------------------------------- timestamps
\* A stored timestamp is the text the code writes; texts compare as strings.
\* toISOString() gives "YYYY-MM-DDTHH:MM:SS.mmmZ", CURRENT_TIMESTAMP gives
\* "YYYY-MM-DD HH:MM:SS": the tuple is <<day, separator, second of day, millis>>
\* with the separator " " (0) below "T" (1).  A Firestore Timestamp is a
\* number, kept in the same shape.
MsPerDay == MsPerSec * SecPerDay

IsoString(t) == <<t \div MsPerDay, 1, (t % MsPerDay) \div MsPerSec, t % MsPerSec>>

CurrentTimestamp(t) == <<t \div MsPerDay, 0, (t % MsPerDay) \div MsPerSec, 0>>

FirestoreTimestamp(t) == <<t \div MsPerDay, 1, (t % MsPerDay) \div MsPerSec, t % MsPerSec>>

RECURSIVE TsLessFrom(_, _, _)
TsLessFrom(a, b, i) ==
  IF i > Len(a) THEN FALSE
  ELSE IF a[i] # b[i] THEN a[i] < b[i]
  ELSE TsLessFrom(a, b, i + 1)

TsLess(a, b) == TsLessFrom(a, b, 1)

TsLeq(a, b) == a = b \/ TsLess(a, b)

\* ------------------------------------------------------ request records
Texts == {"hi"}                          \* texts a caller sends as a message
Titles == {"", "My chat"}                \* titles a caller supplies
Roles == {"user", "assistant"}

NoUser == [id |-> "", email |-> "", name |-> ""]

IdleReq ==
  [op |-> "none", user |-> "none", chatId |-> 0, role |-> "none",
   content |-> "", title |-> "", ts |-> <<>>, ret |-> "done",
   catch |-> "done", chat |-> NoChat, snapshot |-> {}, budget |-> 0, newId |-> 0,
   autoTitle |-> FALSE, bodyOk |-> TRUE, apiKey |-> TRUE, all |-> <<>>,
   \* the headers the middleware reads: "" is a header absent or empty
   headers |-> [cfEmail |-> "", jwt |-> "", devEmail |-> "", devName |-> ""],
   authUser |-> NoUser, NODE_ENV |-> "production"]

\* the response stream of a send-message request: the events enqueued so far,
\* the locals of start() (assistantResponse, chunkText, i), what the upstream
\* was given (contents) and did, and the ids the awaited addMessage of
\* start() returned
NoStream ==
  [open |-> FALSE, closed |-> FALSE, events |-> <<>>, assistantResponse |-> "",
   pulled |-> 0, chunkText |-> "", i |-> 0, upstream |-> "pending",
   saved |-> <<>>, contents |-> <<>>]

\* the locals of one invocation of the send handler of a chat page, and the
\* state of the page: no page is mounted where the worker is looked at alone
IdleRun ==
  [text |-> "", chat |-> 0, n |-> 0, assistant |-> 0, fullContent |-> "",
   lines |-> <<>>, reads |-> 0, thrown |-> "",
   \* what the invocation has met
   created |-> 0, userSaved |-> FALSE, fetched |-> FALSE, base |-> 0,
   sawDone |-> FALSE, sawError |-> "", caught |-> FALSE]

NoPage ==
  [variant |-> "none", isGenerating |-> FALSE, error |-> "", currentChat |-> 0,
   messages |-> <<>>, ids |-> 0, sends |-> 0, fetches |-> 0,
   run |-> [p \in Procs |-> IdleRun]]

RECURSIVE SumBudget(_)
SumBudget(S) ==
  IF S = {} THEN 0
  ELSE LET p == CHOOSE q \in S : TRUE IN req[p].budget + SumBudget(S \ {p})

\* Message ids are never reused; a caller starts only when the ids it may
\* need are left.
CanInsert_upto(n, maxMsgs) == nextMsg + SumBudget(Procs) + n <= maxMsgs

CanInsert(n) == CanInsert_upto(n, MaxMsgs)

\* ------------------------------------------------------- store, relational
\* a lookup by id alone: WHERE id = ?
getChat_anyOwner(chatId, userId) ==
  IF \E ch \in chats : ch.id = chatId
  THEN CHOOSE ch \in chats : ch.id = chatId
  ELSE NoChat

\* SELECT * FROM chats WHERE id = ? AND user_id = ?
getChat(chatId, userId) ==
  IF \E ch \in chats : ch.id = chatId /\ ch.user_id = userId
  THEN CHOOSE ch \in chats : ch.id = chatId /\ ch.user_id = userId
  ELSE NoChat

RECURSIVE InsertByCreatedAt(_, _)
InsertByCreatedAt(m, s) ==
  IF s = <<>> THEN <<m>>
  ELSE IF TsLess(m.created_at, Head(s).created_at) THEN <<m>> \o s
  ELSE <<Head(s)>> \o InsertByCreatedAt(m, Tail(s))

\* a SELECT without ORDER BY: the rows come back in insertion order
OrderByCreatedAt_unsorted(s) == s

RECURSIVE OrderByCreatedAt(_)
OrderByCreatedAt(s) ==
  IF s = <<>> THEN <<>>
  ELSE InsertByCreatedAt(s[Len(s)], OrderByCreatedAt(SubSeq(s, 1, Len(s) - 1)))

MessagesOf(chatId) == SelectSeq(messages, LAMBDA m : m.chat_id = chatId)

\* SELECT * FROM messages WHERE chat_id = ? ORDER BY created_at ASC
SelectMessages(chatId) == OrderByCreatedAt(MessagesOf(chatId))

\* INSERT INTO chats (id, user_id, title, created_at, updated_at)
InsertChat(id, userId, title, ts) ==
  chats \cup {[id |-> id, user_id |-> userId,
               title |-> IF title = "" THEN "New Chat" ELSE title,
               created_at |-> ts, updated_at |-> ts]}

\* UPDATE chats SET title = ?, updated_at = CURRENT_TIMESTAMP WHERE id = ? AND user_id = ?
UpdateTitle(chatId, userId, title) ==
  {IF ch.id = chatId /\ ch.user_id = userId
     THEN [ch EXCEPT !.title = title, !.updated_at = CurrentTimestamp(now)]
     ELSE ch : ch \in chats}

\* UPDATE chats SET updated_at = CURRENT_TIMESTAMP WHERE id = ?
TouchChat(chatId) ==
  {IF ch.id = chatId THEN [ch EXCEPT !.updated_at = CurrentTimestamp(now)] ELSE ch
     : ch \in chats}

\* DELETE FROM messages WHERE chat_id = ?
DeleteMessages(chatId, userId) == SelectSeq(messages, LAMBDA m : m.chat_id # chatId)

\* DELETE FROM chats WHERE id = ? AND user_id = ?
DeleteChatRow(chatId, userId) ==
  {ch \in chats : ~(ch.id = chatId /\ ch.user_id = userId)}

\* a without-the-constraint store: an insert never looks for its chat row
ForeignKeyHolds_unenforced(chatId) == TRUE

\* FOREIGN KEY (chat_id) REFERENCES chats (id): an insert needs its chat row
ForeignKeyHolds(chatId) == \E ch \in chats : ch.id = chatId

\* ... ON DELETE CASCADE: the rows of messages that lost their chat row go too
Cascade(rows) == SelectSeq(messages, LAMBDA m : \E ch \in rows : ch.id = m.chat_id)

\* INSERT INTO messages (id, chat_id, role, content, created_at)
InsertMessage(chatId, role, content, ts) ==
  Append(messages, [id |-> nextMsg + 1, chat_id |-> chatId, role |-> role,
                    content |-> content, created_at |-> ts])

\* --------------------------------------------------------- store, document
\* getDoc(doc(db, 'user_chats', chatId)), then the userId comparison
getUserChat(chatId, userId) ==
  IF \E ch \in chats : ch.id = chatId
  THEN LET ch == CHOOSE c \in chats : c.id = chatId
       IN IF ch.user_id # userId THEN NoChat ELSE ch
  ELSE NoChat

DocExists(chatId) == \E ch \in chats : ch.id = chatId

\* updateDoc(chatRef, {title, updatedAt}): the document is addressed by id alone
UpdateTitleDoc(chatId, title, ts) ==
  {IF ch.id = chatId THEN [ch EXCEPT !.title = title, !.updated_at = ts] ELSE ch
     : ch \in chats}

\* updateDoc(chatRef, {updatedAt: now})
TouchChatDoc(chatId, ts) ==
  {IF ch.id = chatId THEN [ch EXCEPT !.updated_at = ts] ELSE ch : ch \in chats}

\* a deleteUserChat that does not look for the messages of the chat
MessageDocs_none(chatId) == {}

\* query(collection(db, 'user_messages'), where('chatId', '==', chatId)): the ids
MessageDocs(chatId) == {messages[i].id : i \in {j \in 1..Len(messages) : messages[j].chat_id = chatId}}

\* query(..., where('chatId', '==', chatId), orderBy('createdAt', 'asc'))
QueryMessages(chatId) == OrderByCreatedAt(MessagesOf(chatId))

DeleteDoc(id) == SelectSeq(messages, LAMBDA m : m.id # id)

DeleteChatDoc(chatId) == {ch \in chats : ch.id # chatId}

\* ------------------------------------------------------------ processes
Goto(p, label) == pc' = [pc EXCEPT ![p] = label]

\* the awaited call returns v to its caller
Return(p, v) == out' = [out EXCEPT ![p] = v] /\ Goto(p, req[p].ret)

\* the awaited call rejects: control goes to the enclosing catch, or to the caller
Throw(p) == out' = [out EXCEPT ![p] = Threw] /\ Goto(p, req[p].catch)

Tick_upto(max) ==
        /\ now < max
        /\ now' = now + 1
        /\ UNCHANGED <<backend, chats, messages, nextChat, nextMsg, pc, req, out,
                       stream, inflight, appended, disturbed, deleted, users, page>>

Tick == Tick_upto(MaxNow)

\* p has returned and takes up the next operation
Finish(p) ==
  /\ pc[p] = "done"
  /\ pc' = [pc EXCEPT ![p] = "idle"]
  /\ req' = [req EXCEPT ![p] = IdleReq]
  /\ out' = [out EXCEPT ![p] = NoResult]
  /\ stream' = [stream EXCEPT ![p] = NoStream]
  /\ UNCHANGED <<backend, now, chats, messages, nextChat, nextMsg, inflight,
                 appended, disturbed, deleted, users, page>>

\* labels at which a write to the store is awaited
WriteLabels ==
  {"createChat", "updateChatTitle", "touchChat", "deleteChat_messages",
   "deleteChat_chat", "addMessage_insert", "addMessage_touchChat",
   "createUserChat", "updateUserChatTitle_updateDoc", "deleteUserChat_deleteChat",
   "addUserMessage_addDoc", "addUserMessage_updateDoc"}

\* a failed touch that takes the inserted message back
StoreFailure_rollback(p) ==
  /\ pc[p] \in WriteLabels
  /\ Throw(p)
  /\ messages' = IF pc[p] \in {"addMessage_touchChat", "addUserMessage_updateDoc"}
                 THEN SelectSeq(messages, LAMBDA m : m.id # req[p].newId)
                 ELSE messages
  /\ disturbed' = IF pc[p] \in {"addMessage_touchChat", "addUserMessage_updateDoc"}
                  THEN disturbed \cup {req[p].chatId} ELSE disturbed
  /\ UNCHANGED <<backend, now, chats, nextChat, nextMsg, req, stream,
                 inflight, appended, deleted, users, page>>

\* a write to the store fails: the statement has no effect and rejects
StoreFailure(p) ==
  /\ pc[p] \in WriteLabels
  /\ Throw(p)
  /\ disturbed' = IF pc[p] \in {"addMessage_touchChat", "addUserMessage_updateDoc"}
                  THEN disturbed \cup {req[p].chatId} ELSE disturbed
  /\ UNCHANGED <<backend, now, chats, messages, nextChat, nextMsg, req, stream,
                 inflight, appended, deleted, users, page>>

\* ---------------------------------------------- lib/database.ts, one await each
D1_getChat(p) ==
  /\ pc[p] = "getChat"
  /\ Return(p, Result("chat", getChat(req[p].chatId, req[p].user)))
  /\ UNCHANGED <<backend, now, chats, messages, nextChat, nextMsg, req, stream,
                 inflight, appended, disturbed, deleted, users, page>>

D1_createChat(p) ==
  /\ pc[p] = "createChat"
  /\ chats' = InsertChat(req[p].newId, req[p].user, req[p].title, req[p].ts)
  /\ Return(p, Result("id", req[p].newId))
  /\ UNCHANGED <<backend, now, messages, nextChat, nextMsg, req, stream, inflight,
                 appended, disturbed, deleted, users, page>>

D1_updateChatTitle(p) ==
  /\ pc[p] = "updateChatTitle"
  /\ chats' = UpdateTitle(req[p].chatId, req[p].user, req[p].title)
  /\ Return(p, Ok)
  /\ UNCHANGED <<backend, now, messages, nextChat, nextMsg, req, stream, inflight,
                 appended, disturbed, deleted, users, page>>

D1_touchChat(p) ==
  /\ pc[p] = "touchChat"
  /\ chats' = TouchChat(req[p].chatId)
  /\ Return(p, Ok)
  /\ UNCHANGED <<backend, now, messages, nextChat, nextMsg, req, stream, inflight,
                 appended, disturbed, deleted, users, page>>

D1_deleteChat_messages(p) ==
  /\ pc[p] = "deleteChat_messages"
  /\ messages' = DeleteMessages(req[p].chatId, req[p].user)
  /\ disturbed' = disturbed \cup {req[p].chatId}
  /\ Goto(p, "deleteChat_chat")
  /\ UNCHANGED <<backend, now, chats, nextChat, nextMsg, req, out, stream, inflight,
                 appended, deleted, users, page>>

D1_deleteChat_chat(p) ==
  /\ pc[p] = "deleteChat_chat"
  /\ chats' = DeleteChatRow(req[p].chatId, req[p].user)
  /\ messages' = Cascade(DeleteChatRow(req[p].chatId, req[p].user))
  /\ deleted' = IF chats' # chats THEN deleted \cup {req[p].chatId} ELSE deleted
  /\ Return(p, Ok)
  /\ UNCHANGED <<backend, now, nextChat, nextMsg, req, stream, inflight,
                 appended, disturbed, users, page>>

D1_getChatMessages_getChat(p) ==
  /\ pc[p] = "getChatMessages_getChat"
  /\ IF getChat(req[p].chatId, req[p].user) = NoChat
     THEN Return(p, Result("rows", <<>>))
     ELSE Goto(p, "getChatMessages_select") /\ out' = out
  /\ UNCHANGED <<backend, now, chats, messages, nextChat, nextMsg, req, stream,
                 inflight, appended, disturbed, deleted, users, page>>

D1_getChatMessages_select(p) ==
  /\ pc[p] = "getChatMessages_select"
  /\ Return(p, Result("rows", SelectMessages(req[p].chatId)))
  /\ UNCHANGED <<backend, now, chats, messages, nextChat, nextMsg, req, stream,
                 inflight, appended, disturbed, deleted, users, page>>

D1_addMessage_insert(p) ==
  /\ pc[p] = "addMessage_insert"
  /\ IF ForeignKeyHolds(req[p].chatId)
     THEN /\ messages' = InsertMessage(req[p].chatId, req[p].role, req[p].content,
                                       req[p].ts)
          /\ nextMsg' = nextMsg + 1
          /\ req' = [req EXCEPT ![p].budget = @ - 1, ![p].newId = nextMsg + 1]
          /\ Goto(p, "addMessage_touchChat")
          /\ out' = out
     ELSE /\ Throw(p)
          /\ UNCHANGED <<messages, nextMsg, req>>
  /\ UNCHANGED <<backend, now, chats, nextChat, stream, inflight, appended,
                 disturbed, deleted, users, page>>

D1_addMessage_touchChat(p) ==
  /\ pc[p] = "addMessage_touchChat"
  /\ chats' = TouchChat(req[p].chatId)
  /\ appended' = appended \cup {<<req[p].newId, req[p].chatId>>}
  /\ Return(p, Result("id", req[p].newId))
  /\ UNCHANGED <<backend, now, messages, nextChat, nextMsg, req, stream, inflight,
                 disturbed, deleted, users, page>>

\* --------------------------------------------- lib/user-chat.ts, one await each
FS_createUserChat(p) ==
  /\ pc[p] = "createUserChat"
  /\ chats' = InsertChat(req[p].newId, req[p].user, req[p].title, req[p].ts)
  /\ Return(p, Result("id", req[p].newId))
  /\ UNCHANGED <<backend, now, messages, nextChat, nextMsg, req, stream, inflight,
                 appended, disturbed, deleted, users, page>>

FS_getUserChat(p) ==
  /\ pc[p] = "getUserChat"
  /\ Return(p, Result("chat", getUserChat(req[p].chatId, req[p].user)))
  /\ UNCHANGED <<backend, now, chats, messages, nextChat, nextMsg, req, stream,
                 inflight, appended, disturbed, deleted, users, page>>

\* the ownership check that opens updateUserChatTitle, deleteUserChat,
\* addUserMessage and getUserMessages: 'Chat not found or access denied'
FS_verifyOwnership(p, label, next, stamp) ==
  /\ pc[p] = label
  /\ IF getUserChat(req[p].chatId, req[p].user) = NoChat
     THEN Throw(p) /\ req' = req
     ELSE /\ Goto(p, next)
          /\ out' = out
          /\ req' = IF stamp THEN [req EXCEPT ![p].ts = FirestoreTimestamp(now)] ELSE req
  /\ UNCHANGED <<backend, now, chats, messages, nextChat, nextMsg, stream, inflight,
                 appended, disturbed, deleted, users, page>>

FS_updateUserChatTitle_getUserChat(p) ==
  FS_verifyOwnership(p, "updateUserChatTitle_getUserChat", "updateUserChatTitle_updateDoc", TRUE)

FS_updateUserChatTitle_updateDoc(p) ==
  /\ pc[p] = "updateUserChatTitle_updateDoc"
  /\ IF DocExists(req[p].chatId)
     THEN chats' = UpdateTitleDoc(req[p].chatId, req[p].title, req[p].ts) /\ Return(p, Ok)
     ELSE chats' = chats /\ Throw(p)
  /\ UNCHANGED <<backend, now, messages, nextChat, nextMsg, req, stream, inflight,
                 appended, disturbed, deleted, users, page>>

FS_deleteUserChat_getUserChat(p) ==
  FS_verifyOwnership(p, "deleteUserChat_getUserChat", "deleteUserChat_getDocs", FALSE)

FS_deleteUserChat_getDocs(p) ==
  /\ pc[p] = "deleteUserChat_getDocs"
  /\ req' = [req EXCEPT ![p].snapshot = MessageDocs(req[p].chatId)]
  /\ disturbed' = disturbed \cup {req[p].chatId}
  /\ Goto(p, IF MessageDocs(req[p].chatId) = {} THEN "deleteUserChat_deleteChat"
             ELSE "deleteUserChat_deleteDocs")
  /\ UNCHANGED <<backend, now, chats, messages, nextChat, nextMsg, out, stream,
                 inflight, appended, deleted, users, page>>

\* Promise.all over one deleteDoc per message of the snapshot: they complete in
\* any order; the first to reject rejects the whole, the others stay in flight
FS_deleteUserChat_deleteDocs(p) ==
  /\ pc[p] = "deleteUserChat_deleteDocs"
  /\ \E id \in req[p].snapshot :
       \/ /\ messages' = DeleteDoc(id)
          /\ req' = [req EXCEPT ![p].snapshot = @ \ {id}]
          /\ Goto(p, IF req[p].snapshot = {id} THEN "deleteUserChat_deleteChat"
                     ELSE "deleteUserChat_deleteDocs")
          /\ UNCHANGED <<out, inflight, deleted, users, page>>
       \/ /\ messages' = messages
          /\ req' = [req EXCEPT ![p].snapshot = {}]
          /\ inflight' = inflight \cup (req[p].snapshot \ {id})
          /\ Throw(p)
  /\ UNCHANGED <<backend, now, chats, nextChat, nextMsg, stream, appended,
                 disturbed, deleted, users, page>>

\* a deleteDoc left in flight by a rejected Promise.all completes
FS_deleteDocInFlight ==
  /\ \E id \in inflight :
       /\ inflight' = inflight \ {id}
       /\ \/ messages' = DeleteDoc(id)
          \/ messages' = messages
  /\ UNCHANGED <<backend, now, chats, nextChat, nextMsg, pc, req, out, stream,
                 appended, disturbed, deleted, users, page>>

FS_deleteUserChat_deleteChat(p) ==
  /\ pc[p] = "deleteUserChat_deleteChat"
  /\ chats' = DeleteChatDoc(req[p].chatId)
  /\ deleted' = IF chats' # chats THEN deleted \cup {req[p].chatId} ELSE deleted
  /\ Return(p, Ok)
  /\ UNCHANGED <<backend, now, messages, nextChat, nextMsg, req, stream, inflight,
                 appended, disturbed, users, page>>

FS_addUserMessage_getUserChat(p) ==
  FS_verifyOwnership(p, "addUserMessage_getUserChat", "addUserMessage_addDoc", TRUE)

FS_addUserMessage_addDoc(p) ==
  /\ pc[p] = "addUserMessage_addDoc"
  /\ messages' = InsertMessage(req[p].chatId, req[p].role, req[p].content, req[p].ts)
  /\ nextMsg' = nextMsg + 1
  /\ req' = [req EXCEPT ![p].budget = @ - 1, ![p].newId = nextMsg + 1]
  /\ Goto(p, "addUserMessage_updateDoc")
  /\ UNCHANGED <<backend, now, chats, nextChat, out, stream, inflight, appended, disturbed, deleted, users, page>>

FS_addUserMessage_updateDoc(p) ==
  /\ pc[p] = "addUserMessage_updateDoc"
  /\ IF DocExists(req[p].chatId)
     THEN /\ chats' = TouchChatDoc(req[p].chatId, req[p].ts)
          /\ appended' = appended \cup {<<req[p].newId, req[p].chatId>>}
          /\ disturbed' = disturbed
          /\ Return(p, Result("id", req[p].newId))
     ELSE /\ chats' = chats
          /\ appended' = appended
          /\ disturbed' = disturbed \cup {req[p].chatId}
          /\ Throw(p)
  /\ UNCHANGED <<backend, now, messages, nextChat, nextMsg, req, stream, inflight, deleted, users, page>>

FS_getUserMessages_getUserChat(p) ==
  FS_verifyOwnership(p, "getUserMessages_getUserChat", "getUserMessages_getDocs", FALSE)

FS_getUserMessages_getDocs(p) ==
  /\ pc[p] = "getUserMessages_getDocs"
  /\ Return(p, Result("rows", QueryMessages(req[p].chatId)))
  /\ UNCHANGED <<backend, now, chats, messages, nextChat, nextMsg, req, stream,
                 inflight, appended, disturbed, deleted, users, page>>

\* ORDER BY updated_at DESC / orderBy('updatedAt', 'desc') over rows: the
\* orders a query may give, rows with equal values in either order
OrderByUpdatedAtDesc(rows) ==
  {s \in [1..Cardinality(rows) -> rows] :
     /\ \A i, j \in 1..Cardinality(rows) : i < j => s[i] # s[j]
     /\ \A i, j \in 1..Cardinality(rows) :
          i < j => TsLeq(s[j].updated_at, s[i].updated_at)}

\* SELECT * FROM chats WHERE user_id = ? ORDER BY updated_at DESC, and
\* query(user_chats, where('userId', '==', userId), orderBy('updatedAt', 'desc'))
getUserChats(userId) == OrderByUpdatedAtDesc({ch \in chats : ch.user_id = userId})

D1_getUserChats(p) ==
  /\ pc[p] = "getUserChats"
  /\ backend = "d1"
  /\ \E rows \in getUserChats(req[p].user) : Return(p, Result("chats", rows))
  /\ UNCHANGED <<backend, now, chats, messages, nextChat, nextMsg, req, stream,
                 inflight, appended, disturbed, deleted, users, page>>

FS_getUserChats(p) ==
  /\ pc[p] = "getUserChats"
  /\ backend = "firestore"
  /\ \E rows \in getUserChats(req[p].user) : Return(p, Result("chats", rows))
  /\ UNCHANGED <<backend, now, chats, messages, nextChat, nextMsg, req, stream,
                 inflight, appended, disturbed, deleted, users, page>>

\* ------------------------------------------- callers of the store functions
D1Ops == {"getChat", "createChat", "updateChatTitle", "touchChat", "deleteChat",
          "getChatMessages", "addMessage"}

FSOps == {"createUserChat", "getUserChat", "updateUserChatTitle", "deleteUserChat",
          "addUserMessage", "getUserMessages"}

Entry(op) ==
  CASE op = "deleteChat" -> "deleteChat_messages"
    [] op = "getChatMessages" -> "getChatMessages_getChat"
    [] op = "addMessage" -> "addMessage_insert"
    [] op \in {"updateUserChatTitle", "deleteUserChat", "addUserMessage",
               "getUserMessages"} -> op \o "_getUserChat"
    [] OTHER -> op

\* the arguments of a call and what its synchronous prefix computes
CallFrame(op, u, c, t, r, x) ==
  CASE op \in {"getChat", "getUserChat", "deleteChat", "deleteUserChat",
               "getChatMessages", "getUserMessages"} ->
         [IdleReq EXCEPT !.op = op, !.user = u, !.chatId = c]
    [] op = "createChat" ->
         [IdleReq EXCEPT !.op = op, !.user = u, !.title = t, !.newId = nextChat + 1,
                         !.ts = IsoString(now)]
    [] op = "createUserChat" ->
         [IdleReq EXCEPT !.op = op, !.user = u, !.title = t, !.newId = nextChat + 1,
                         !.ts = FirestoreTimestamp(now)]
    [] op \in {"updateChatTitle", "updateUserChatTitle"} ->
         [IdleReq EXCEPT !.op = op, !.user = u, !.chatId = c, !.title = "My chat"]
    [] op = "touchChat" ->
         [IdleReq EXCEPT !.op = op, !.chatId = c]
    [] op = "getUserChats" ->
         [IdleReq EXCEPT !.op = op, !.user = u]
    [] op = "addMessage" ->   \* user is the caller; the function is not given it
         [IdleReq EXCEPT !.op = op, !.user = u, !.chatId = c, !.role = r, !.content = x,
                         !.budget = 1, !.ts = IsoString(now)]
    [] op = "addUserMessage" ->
         [IdleReq EXCEPT !.op = op, !.user = u, !.chatId = c, !.role = r,
                         !.content = x, !.budget = 1]

\* Chat ids are unguessable (generateId, addDoc): a caller names the id of a
\* chat some createChat has returned, or an id no chat ever had.
NoSuchChat == MaxListChats + 1

KnownChatIds ==
  {c \in 1..nextChat :
     ~\E q \in Procs : pc[q] \in {"createChat", "createUserChat"} /\ req[q].newId = c}
  \cup {NoSuchChat}

\* The store functions copy role into the row and never read it: direct
\* callers pass one value.
CallerRoles == {"user"}

\* a caller invokes one of the exported store functions in menu, with
\* arguments of its choice, while less than maxChats chats were created
StoreCall_upto(p, menu, maxChats) ==
  /\ pc[p] = "idle"
  /\ \E op \in menu \cap ((IF backend = "d1" THEN D1Ops ELSE FSOps)
                          \cup {"getUserChats"}),
        u \in Users, c \in KnownChatIds, t \in Titles, r \in CallerRoles, x \in Texts :
       /\ op \in {"createChat", "createUserChat"} => nextChat < maxChats
       /\ op \in {"addMessage", "addUserMessage"} => CanInsert(1)
       /\ req' = [req EXCEPT ![p] = CallFrame(op, u, c, t, r, x)]
       /\ nextChat' = IF op \in {"createChat", "createUserChat"} THEN nextChat + 1
                      ELSE nextChat
       /\ Goto(p, Entry(op))
  /\ UNCHANGED <<backend, now, chats, messages, nextMsg, out, stream, inflight,
                 appended, disturbed, deleted, users, page>>

StoreCall(p, menu) == StoreCall_upto(p, menu, MaxChats)

InitCommon ==
  /\ now = 0
  /\ chats = {}
  /\ messages = <<>>
  /\ nextChat = 0
  /\ nextMsg = 0
  /\ pc = [p \in Procs |-> "idle"]
  /\ req = [p \in Procs |-> IdleReq]
  /\ out = [p \in Procs |-> NoResult]
  /\ stream = [p \in Procs |-> NoStream]
  /\ inflight = {}
  /\ appended = {}
  /\ disturbed = {}
  /\ deleted = {}
  /\ users = {}
  /\ page = NoPage

InitStore == backend \in {"d1", "firestore"} /\ InitCommon

\* Labels at which the next step of a process touches nothing but its own
\* locals and reads nothing another process writes: such a step commutes with
\* every step of the other processes and is taken before anything else moves.
\* The clock ticks while a store operation is awaited or nothing runs.
LocalLabels ==
  {"done", "onError", "get_chat", "get_messages", "post_chats", "patch_chat",
   "delete_chat", "success", "post_messages_chat", "post_messages_added",
   "post_messages_titled", "post_messages_all", "post_messages_catch",
   "generateContentStream", "for_await", "setTimeout", "start_saved",
   "start_catch", "page_created", "page_create_failed", "page_send",
   "page_newChat",
   "page_user_saved", "page_ai", "page_new_chat", "page_line", "page_saved",
   "page_save_failed", "page_ai_catch", "page_done_ai", "page_catch",
   "page_finally", "page_returned"}

Free == \A q \in Procs : pc[q] \notin LocalLabels

\* p is the process to move
Sched(p) == Free \/ pc[p] \in LocalLabels

Others(p) == Procs \ {p}

\* p may move while every other process is idle: one call at a time
Turn(p) == Sched(p) /\ \A q \in Others(p) : pc[q] = "idle"

\* The store functions of either backend, one call at a time: a call runs to
\* its return or to the statement that rejects before the next call starts.
NextSerial ==
  \/ \E p \in Procs : Finish(p)
  \/ Free /\ Tick
  \/ Free /\ FS_deleteDocInFlight
  \/ \E p \in Procs : Turn(p) /\ StoreCall(p, D1Ops \cup FSOps)
  \/ \E p \in Procs : Turn(p) /\ D1_getChat(p)
  \/ \E p \in Procs : Turn(p) /\ D1_createChat(p)
  \/ \E p \in Procs : Turn(p) /\ D1_updateChatTitle(p)
  \/ \E p \in Procs : Turn(p) /\ D1_touchChat(p)
  \/ \E p \in Procs : Turn(p) /\ D1_deleteChat_messages(p)
  \/ \E p \in Procs : Turn(p) /\ D1_deleteChat_chat(p)
  \/ \E p \in Procs : Turn(p) /\ D1_getChatMessages_getChat(p)
  \/ \E p \in Procs : Turn(p) /\ D1_getChatMessages_select(p)
  \/ \E p \in Procs : Turn(p) /\ D1_addMessage_insert(p)
  \/ \E p \in Procs : Turn(p) /\ D1_addMessage_touchChat(p)
  \/ \E p \in Procs : Turn(p) /\ FS_createUserChat(p)
  \/ \E p \in Procs : Turn(p) /\ FS_getUserChat(p)
  \/ \E p \in Procs : Turn(p) /\ FS_updateUserChatTitle_getUserChat(p)
  \/ \E p \in Procs : Turn(p) /\ FS_updateUserChatTitle_updateDoc(p)
  \/ \E p \in Procs : Turn(p) /\ FS_deleteUserChat_getUserChat(p)
  \/ \E p \in Procs : Turn(p) /\ FS_deleteUserChat_getDocs(p)
  \/ \E p \in Procs : Turn(p) /\ FS_deleteUserChat_deleteDocs(p)
  \/ \E p \in Procs : Turn(p) /\ FS_deleteUserChat_deleteChat(p)
  \/ \E p \in Procs : Turn(p) /\ FS_addUserMessage_getUserChat(p)
  \/ \E p \in Procs : Turn(p) /\ FS_addUserMessage_addDoc(p)
  \/ \E p \in Procs : Turn(p) /\ FS_addUserMessage_updateDoc(p)
  \/ \E p \in Procs : Turn(p) /\ FS_getUserMessages_getUserChat(p)
  \/ \E p \in Procs : Turn(p) /\ FS_getUserMessages_getDocs(p)
  \/ \E p \in Procs : Turn(p) /\ StoreFailure(p)

SpecSerial == InitStore /\ [][NextSerial]_vars

\* Concurrent callers creating chats, appending, listing and deleting: the
\* awaits of different calls interleave.
AppendOps == {"createChat", "addMessage", "getChatMessages", "deleteChat",
              "createUserChat", "addUserMessage", "getUserMessages", "deleteUserChat"}

NextStore ==
  \/ \E p \in Procs : Finish(p)
  \/ Free /\ Tick
  \/ Free /\ FS_deleteDocInFlight
  \/ \E p \in Procs : Sched(p) /\ StoreCall(p, AppendOps)
  \/ \E p \in Procs : Sched(p) /\ D1_createChat(p)
  \/ \E p \in Procs : Sched(p) /\ D1_deleteChat_messages(p)
  \/ \E p \in Procs : Sched(p) /\ D1_deleteChat_chat(p)
  \/ \E p \in Procs : Sched(p) /\ D1_getChatMessages_getChat(p)
  \/ \E p \in Procs : Sched(p) /\ D1_getChatMessages_select(p)
  \/ \E p \in Procs : Sched(p) /\ D1_addMessage_insert(p)
  \/ \E p \in Procs : Sched(p) /\ D1_addMessage_touchChat(p)
  \/ \E p \in Procs : Sched(p) /\ FS_createUserChat(p)
  \/ \E p \in Procs : Sched(p) /\ FS_deleteUserChat_getUserChat(p)
  \/ \E p \in Procs : Sched(p) /\ FS_deleteUserChat_getDocs(p)
  \/ \E p \in Procs : Sched(p) /\ FS_deleteUserChat_deleteDocs(p)
  \/ \E p \in Procs : Sched(p) /\ FS_deleteUserChat_deleteChat(p)
  \/ \E p \in Procs : Sched(p) /\ FS_addUserMessage_getUserChat(p)
  \/ \E p \in Procs : Sched(p) /\ FS_addUserMessage_addDoc(p)
  \/ \E p \in Procs : Sched(p) /\ FS_addUserMessage_updateDoc(p)
  \/ \E p \in Procs : Sched(p) /\ FS_getUserMessages_getUserChat(p)
  \/ \E p \in Procs : Sched(p) /\ FS_getUserMessages_getDocs(p)
  \/ \E p \in Procs : Sched(p) /\ StoreFailure(p)

SpecStore == InitStore /\ [][NextStore]_vars

\* Concurrent callers creating chats and appending to them, no delete.
OnlyAppendOps == {"createChat", "addMessage", "createUserChat", "addUserMessage"}

NextAppend ==
  \/ \E p \in Procs : Finish(p)
  \/ Free /\ Tick
  \/ \E p \in Procs : Sched(p) /\ StoreCall(p, OnlyAppendOps)
  \/ \E p \in Procs : Sched(p) /\ D1_createChat(p)
  \/ \E p \in Procs : Sched(p) /\ D1_addMessage_insert(p)
  \/ \E p \in Procs : Sched(p) /\ D1_addMessage_touchChat(p)
  \/ \E p \in Procs : Sched(p) /\ FS_createUserChat(p)
  \/ \E p \in Procs : Sched(p) /\ FS_addUserMessage_getUserChat(p)
  \/ \E p \in Procs : Sched(p) /\ FS_addUserMessage_addDoc(p)
  \/ \E p \in Procs : Sched(p) /\ FS_addUserMessage_updateDoc(p)
  \/ \E p \in Procs : Sched(p) /\ StoreFailure(p)

SpecAppend == InitStore /\ [][NextAppend]_vars

\* Chats are created, renamed, appended to and listed, one call at a time,
\* on either backend, over two seconds of the clock.
ListedOps ==
  {"createChat", "updateChatTitle", "addMessage", "createUserChat",
   "updateUserChatTitle", "addUserMessage", "getUserChats"}

NextList ==
  \/ \E p \in Procs : Finish(p)
  \/ Free /\ Tick_upto(MaxListNow)
  \/ \E p \in Procs : Turn(p) /\ StoreCall_upto(p, ListedOps, MaxListChats)
  \/ \E p \in Procs : Turn(p) /\ D1_createChat(p)
  \/ \E p \in Procs : Turn(p) /\ D1_updateChatTitle(p)
  \/ \E p \in Procs : Turn(p) /\ D1_addMessage_insert(p)
  \/ \E p \in Procs : Turn(p) /\ D1_addMessage_touchChat(p)
  \/ \E p \in Procs : Turn(p) /\ D1_getUserChats(p)
  \/ \E p \in Procs : Turn(p) /\ FS_createUserChat(p)
  \/ \E p \in Procs : Turn(p) /\ FS_updateUserChatTitle_getUserChat(p)
  \/ \E p \in Procs : Turn(p) /\ FS_updateUserChatTitle_updateDoc(p)
  \/ \E p \in Procs : Turn(p) /\ FS_addUserMessage_getUserChat(p)
  \/ \E p \in Procs : Turn(p) /\ FS_addUserMessage_addDoc(p)
  \/ \E p \in Procs : Turn(p) /\ FS_addUserMessage_updateDoc(p)
  \/ \E p \in Procs : Turn(p) /\ FS_getUserChats(p)

SpecList == InitStore /\ [][NextList]_vars

\* ----------------------------------------------------------- lib/auth.ts
\* hash = ((hash << 5) - hash) + char, kept in 32 bits, over the characters of
\* the email; the id is "user_" and the absolute value in base 36.  The
\* emails here are short enough for the hash to stay below 2^31.
generateUserIdFromEmail(email) ==
  LET lower == "abcdefghijklmnopqrstuvwxyz"
      digits == "0123456789abcdefghijklmnopqrstuvwxyz"
      charCodeAt(i) ==
        LET c == SubSeq(email, i, i) IN
        IF c = "@" THEN 64 ELSE IF c = "." THEN 46
        ELSE 96 + CHOOSE k \in 1..26 : SubSeq(lower, k, k) = c
      RECURSIVE hash(_), toString36(_)
      hash(i) == IF i = 0 THEN 0 ELSE (hash(i - 1) * 32 - hash(i - 1)) + charCodeAt(i)
      toString36(n) == (IF n < 36 THEN "" ELSE toString36(n \div 36))
                       \o SubSeq(digits, (n % 36) + 1, (n % 36) + 1)
      abs(n) == IF n < 0 THEN 0 - n ELSE n
  IN "user_" \o toString36(abs(hash(Len(email))))

\* the name claim of the payload, if the assertion has a readable payload
extractNameFromJWT(jwt) ==
  IF Len(jwt) > 5 /\ SubSeq(jwt, 1, 5) = "name=" THEN SubSeq(jwt, 6, Len(jwt)) ELSE ""

getUserFromHeaders(headers) ==
  IF headers.cfEmail # ""
  THEN [id |-> generateUserIdFromEmail(headers.cfEmail), email |-> headers.cfEmail,
        name |-> extractNameFromJWT(headers.jwt)]
  ELSE IF headers.devEmail # ""
  THEN [id |-> generateUserIdFromEmail(headers.devEmail), email |-> headers.devEmail,
        name |-> headers.devName]
  ELSE NoUser

\* SELECT * FROM users WHERE id = ?
D1_ensureUser(p) ==
  /\ pc[p] = "ensureUser"
  /\ LET authUser == req[p].authUser
         found == {u \in users : u.id = authUser.id} IN
     IF found = {}
     THEN Goto(p, "ensureUser_insert") /\ out' = out
     ELSE LET existingUser == CHOOSE u \in found : TRUE IN
          IF authUser.name # "" /\ authUser.name # existingUser.name
          THEN /\ out' = [out EXCEPT ![p] = Result("user", existingUser)]
               /\ Goto(p, "ensureUser_update")
          ELSE Return(p, Result("user", existingUser))
  /\ UNCHANGED <<backend, now, chats, messages, nextChat, nextMsg, req, stream,
                 inflight, appended, disturbed, deleted, users, page>>

\* UPDATE users SET name = ? WHERE id = ?
D1_ensureUser_update(p) ==
  /\ pc[p] = "ensureUser_update"
  /\ users' = {IF u.id = req[p].authUser.id THEN [u EXCEPT !.name = req[p].authUser.name]
               ELSE u : u \in users}
  /\ Return(p, Result("user", [out[p].val EXCEPT !.name = req[p].authUser.name]))
  /\ UNCHANGED <<backend, now, chats, messages, nextChat, nextMsg, req, stream,
                 inflight, appended, disturbed, deleted, page>>

\* INSERT INTO users: id is the primary key and email is unique
D1_ensureUser_insert(p) ==
  /\ pc[p] = "ensureUser_insert"
  /\ LET newUser == req[p].authUser IN
     IF \E u \in users : u.id = newUser.id \/ u.email = newUser.email
     THEN Throw(p) /\ users' = users
     ELSE users' = users \cup {newUser} /\ Return(p, Result("user", newUser))
  /\ UNCHANGED <<backend, now, chats, messages, nextChat, nextMsg, req, stream,
                 inflight, appended, disturbed, deleted, page>>

\* ------------------------------------------------------ worker/index.ts
\* The routes run on the D1 store.  A handler calls the store functions above
\* and is resumed, at the label it left in ret, with what the call gave back.
MiniChunk == 3          \* characters of one content event
MinTitleLen == 10       \* shorter first messages give no title
TitleLimit == 60        \* characters of a first message a title keeps
WhiteSpace == {" ", "\n"}

Fragments == {"", "abab"}   \* chunk.text() of one upstream chunk

GET_chat == "GET /api/chats/:chatId"
POST_chats == "POST /api/chats"
PATCH_chat == "PATCH /api/chats/:chatId"
DELETE_chat == "DELETE /api/chats/:chatId"
POST_messages == "POST /api/chats/:chatId/messages"
POST_chat == "POST /api/chat"

Response(status, body) ==
  Result("http", [status |-> status, body |-> body, chat |-> NoChat,
                  messages |-> <<>>])

NotFound == Response(404, "Chat not found")

\* errors no handler catches get the framework's response
InternalServerError == Response(500, "Internal Server Error")

SetupError == Response(500, "Failed to setup streaming")

Respond(p, r) == out' = [out EXCEPT ![p] = r] /\ Goto(p, "done")

\* String.prototype.trim: white space goes from both ends
trim(s) ==
  LET RECURSIVE trimStart(_), trimEnd(_)
      trimStart(t) == IF Len(t) > 0 /\ SubSeq(t, 1, 1) \in WhiteSpace
                      THEN trimStart(SubSeq(t, 2, Len(t))) ELSE t
      trimEnd(t) == IF Len(t) > 0 /\ SubSeq(t, Len(t), Len(t)) \in WhiteSpace
                    THEN trimEnd(SubSeq(t, 1, Len(t) - 1)) ELSE t
  IN trimEnd(trimStart(s))

\* replace(/\n/g, ' ')
RECURSIVE replaceNewlines(_)
replaceNewlines(s) ==
  IF Len(s) = 0 THEN ""
  ELSE (IF SubSeq(s, 1, 1) = "\n" THEN " " ELSE SubSeq(s, 1, 1))
       \o replaceNewlines(SubSeq(s, 2, Len(s)))

\* substring(0, end)
substring(s, end) == SubSeq(s, 1, IF end < Len(s) THEN end ELSE Len(s))

\* one character less in the cut: substring(0, 59)
generateChatTitle_cut59(firstMessage) ==
  LET cleaned == substring(replaceNewlines(trim(firstMessage)), TitleLimit - 1) IN
  IF Len(cleaned) < MinTitleLen THEN "New Chat"
  ELSE IF Len(cleaned) = TitleLimit THEN cleaned \o "..." ELSE cleaned

\* lib/database.ts
generateChatTitle(firstMessage) ==
  LET cleaned == substring(replaceNewlines(trim(firstMessage)), TitleLimit) IN
  IF Len(cleaned) < MinTitleLen THEN "New Chat"
  ELSE IF Len(cleaned) = TitleLimit THEN cleaned \o "..." ELSE cleaned

\* lib/user-chat.ts
generateChatTitle_userChat(firstMessage) ==
  LET cleaned == substring(replaceNewlines(trim(firstMessage)), TitleLimit) IN
  IF Len(cleaned) < MinTitleLen THEN "New Chat"
  ELSE IF Len(cleaned) = TitleLimit THEN cleaned \o "..." ELSE cleaned

\* lib/anonymous-chat.ts
generateChatTitle_anonymousChat(firstMessage) ==
  LET cleaned == substring(replaceNewlines(trim(firstMessage)), TitleLimit) IN
  IF Len(cleaned) < MinTitleLen THEN "New Chat"
  ELSE IF Len(cleaned) = TitleLimit THEN cleaned \o "..." ELSE cleaned

ContentEvent(text) == [type |-> "content", data |-> text]

DoneEvent == [type |-> "done", data |-> ""]

\* a catch that reports the failure as content
ErrorEvent_content == [type |-> "content", data |-> ""]

ErrorEvent == [type |-> "error", data |-> ""]

\* a slice one character too long: chunkText.slice(i, i + 4)
miniChunk_overlap(chunkText, i) ==
  SubSeq(chunkText, i + 1, IF i + MiniChunk + 1 < Len(chunkText) THEN i + MiniChunk + 1
                           ELSE Len(chunkText))

\* chunkText.slice(i, i + 3)
miniChunk(chunkText, i) ==
  SubSeq(chunkText, i + 1, IF i + MiniChunk < Len(chunkText) THEN i + MiniChunk
                           ELSE Len(chunkText))

\* a save without the test of the accumulated text
PersistsResponse_always(assistantResponse) == TRUE

\* if (assistantResponse)
PersistsResponse(assistantResponse) == assistantResponse # ""

\* every entry has the role 'user'
GeminiContents_allUser(allMessages) ==
  [k \in 1..Len(allMessages) |-> [role |-> "user", text |-> allMessages[k].content]]

\* allMessages.map(msg => ({role: ..., parts: [{text: msg.content}]}))
GeminiContents(allMessages) ==
  [k \in 1..Len(allMessages) |->
     [role |-> IF allMessages[k].role = "assistant" THEN "model" ELSE "user",
      text |-> allMessages[k].content]]

Persisted(p) == req[p].op = POST_messages

HttpFrame(route, u, c, ret) ==
  [IdleReq EXCEPT !.op = route, !.user = u, !.chatId = c, !.ret = ret,
                  !.catch = "onError"]

\* what a handler step leaves alone
world == <<backend, now, chats, messages, nextChat, nextMsg, inflight, appended,
           disturbed, deleted, users, page>>

\* a rejected await of a handler without try/catch
onError(p) ==
  /\ pc[p] = "onError"
  /\ Respond(p, InternalServerError)
  /\ UNCHANGED <<world, req, stream>>

GET_chats == "GET /api/chats"

ProtectedRoutes ==
  {GET_chats, GET_chat, POST_chats, PATCH_chat, DELETE_chat, POST_messages}

\* app.use('/api/chats/*'): a request arrives with its headers, on a worker
\* with or without the DB binding, deployed for production or development
app_use_chats(p) ==
  /\ pc[p] = "idle"
  /\ \E route \in ProtectedRoutes, DB \in BOOLEAN,
        headers \in [cfEmail : {"", "a@b.c", "b@b.c"}, jwt : {"", "name=Ann"},
                     devEmail : {"", "a@b.c", "b@b.c"}, devName : {"", "Ann"}],
        NODE_ENV \in {"production", "development"} :
       LET user == getUserFromHeaders(headers) IN
       /\ req' = [req EXCEPT ![p] =
            [IdleReq EXCEPT !.op = route, !.headers = headers, !.authUser = user,
                            !.NODE_ENV = NODE_ENV,
                            !.ret = "next", !.catch = "onError"]]
       /\ IF user = NoUser
          THEN Respond(p, Response(401, "Authentication required"))
          ELSE IF ~DB
          THEN Respond(p, Response(503, "Database not configured"))
          ELSE Goto(p, "ensureUser") /\ out' = out
  /\ UNCHANGED <<world, stream>>

\* A handler starts when its request arrives or, behind the middleware, when
\* the middleware calls next(); it runs for the user the middleware has set.
Callers(p) ==
  IF pc[p] = "next" THEN {out[p].val.id} ELSE IF pc[p] = "idle" THEN Users ELSE {}

\* ---- GET /api/chats
app_get_chats(p) ==
  /\ \E u \in Callers(p) :
       req' = [req EXCEPT ![p] = HttpFrame(GET_chats, u, 0, "get_chats")]
  /\ Goto(p, "getUserChats")
  /\ UNCHANGED <<world, out, stream>>

app_get_chats_chats(p) ==
  /\ pc[p] = "get_chats"
  /\ Respond(p, Result("http", [status |-> 200, body |-> "chats", chat |-> NoChat,
                                messages |-> <<>>, chats |-> out[p].val]))
  /\ UNCHANGED <<world, req, stream>>

\* the chat lookup that opens the four routes on one chat gave nothing
LookupFailed(p) == out[p].kind = "chat" /\ out[p].val = NoChat

\* ---- GET /api/chats/:chatId
app_get_chat(p) ==
  /\ \E u \in Callers(p), c \in KnownChatIds :
       req' = [req EXCEPT ![p] = HttpFrame(GET_chat, u, c, "get_chat")]
  /\ Goto(p, "getChat")
  /\ UNCHANGED <<world, out, stream>>

app_get_chat_chat(p) ==
  /\ pc[p] = "get_chat"
  /\ IF LookupFailed(p)
     THEN Respond(p, NotFound) /\ req' = req
     ELSE /\ req' = [req EXCEPT ![p].chat = out[p].val, ![p].ret = "get_messages"]
          /\ Goto(p, "getChatMessages_getChat")
          /\ out' = out
  /\ UNCHANGED <<world, stream>>

app_get_chat_messages(p) ==
  /\ pc[p] = "get_messages"
  /\ Respond(p, Result("http", [status |-> 200, body |-> "chat, messages",
                                chat |-> req[p].chat, messages |-> out[p].val]))
  /\ UNCHANGED <<world, req, stream>>

\* ---- POST /api/chats
app_post_chats(p) ==
  /\ \E u \in Callers(p), t \in Titles, bodyOk \in BOOLEAN :
       IF bodyOk
       THEN /\ nextChat < MaxChats
            /\ req' = [req EXCEPT ![p] =
                 [HttpFrame(POST_chats, u, 0, "post_chats") EXCEPT
                    !.title = IF t = "" THEN "New Chat" ELSE t,
                    !.newId = nextChat + 1, !.ts = IsoString(now)]]
            /\ nextChat' = nextChat + 1
            /\ Goto(p, "createChat")
            /\ out' = out
       ELSE /\ t = ""
            /\ req' = [req EXCEPT ![p] =
                 [HttpFrame(POST_chats, u, 0, "done") EXCEPT !.bodyOk = FALSE]]
            /\ nextChat' = nextChat
            /\ Respond(p, InternalServerError)
  /\ UNCHANGED <<backend, now, chats, messages, nextMsg, inflight, appended,
                 disturbed, deleted, users, stream, page>>

app_post_chats_chat(p) ==
  /\ pc[p] = "post_chats"
  /\ Respond(p, Result("http", [status |-> 200, body |-> "chat",
                                chat |-> [id |-> req[p].newId, user_id |-> req[p].user,
                                         title |-> req[p].title,
                                         created_at |-> req[p].ts,
                                         updated_at |-> req[p].ts],
                                messages |-> <<>>]))
  /\ UNCHANGED <<world, req, stream>>

\* ---- PATCH /api/chats/:chatId
app_patch_chat(p) ==
  /\ \E u \in Callers(p), c \in KnownChatIds, bodyOk \in BOOLEAN :
       IF bodyOk
       THEN /\ req' = [req EXCEPT ![p] =
                 [HttpFrame(PATCH_chat, u, c, "patch_chat") EXCEPT !.title = "My chat"]]
            /\ Goto(p, "getChat")
            /\ out' = out
       ELSE /\ req' = [req EXCEPT ![p] =
                 [HttpFrame(PATCH_chat, u, c, "done") EXCEPT !.bodyOk = FALSE]]
            /\ Respond(p, InternalServerError)
  /\ UNCHANGED <<world, stream>>

app_patch_chat_chat(p) ==
  /\ pc[p] = "patch_chat"
  /\ IF LookupFailed(p)
     THEN Respond(p, NotFound) /\ req' = req
     ELSE /\ req' = [req EXCEPT ![p].ret = "success"]
          /\ Goto(p, "updateChatTitle")
          /\ out' = out
  /\ UNCHANGED <<world, stream>>

\* ---- DELETE /api/chats/:chatId
app_delete_chat(p) ==
  /\ \E u \in Callers(p), c \in KnownChatIds :
       req' = [req EXCEPT ![p] = HttpFrame(DELETE_chat, u, c, "delete_chat")]
  /\ Goto(p, "getChat")
  /\ UNCHANGED <<world, out, stream>>

app_delete_chat_chat(p) ==
  /\ pc[p] = "delete_chat"
  /\ IF LookupFailed(p)
     THEN Respond(p, NotFound) /\ req' = req
     ELSE /\ req' = [req EXCEPT ![p].ret = "success"]
          /\ Goto(p, "deleteChat_messages")
          /\ out' = out
  /\ UNCHANGED <<world, stream>>

\* return c.json({ success: true }) of PATCH and DELETE
app_success(p) ==
  /\ pc[p] = "success"
  /\ Respond(p, Response(200, "success"))
  /\ UNCHANGED <<world, req, stream>>

\* ---- POST /api/chats/:chatId/messages, up to the response
\* a request with a message of texts and a provider key configured as in
\* keys, while the message ids it may need are left of maxMsgs; without the
\* key no answer is ever stored
app_post_messages_upto(p, texts, keys, maxMsgs) ==
  /\ \E u \in Callers(p), c \in KnownChatIds, message \in texts, autoTitle \in BOOLEAN,
        bodyOk \in BOOLEAN, apiKey \in keys :
       LET owned == getChat(c, u) # NoChat
           budget == IF ~owned THEN 0 ELSE IF apiKey THEN 2 ELSE 1 IN
       IF bodyOk
       THEN /\ CanInsert_upto(budget, maxMsgs)
            /\ owned \/ (~autoTitle /\ apiKey)
            /\ req' = [req EXCEPT ![p] =
                 [HttpFrame(POST_messages, u, c, "post_messages_chat") EXCEPT
                    !.content = message, !.autoTitle = autoTitle, !.apiKey = apiKey,
                    !.budget = budget, !.catch = "post_messages_catch"]]
            /\ Goto(p, "getChat")
            /\ out' = out
       ELSE /\ ~autoTitle /\ apiKey
            /\ req' = [req EXCEPT ![p] =
                 [HttpFrame(POST_messages, u, c, "done") EXCEPT !.bodyOk = FALSE]]
            /\ Respond(p, SetupError)
  /\ UNCHANGED <<world, stream>>

app_post_messages_of(p, texts, keys) ==
  app_post_messages_upto(p, texts, keys, MaxMsgs)

app_post_messages(p) == app_post_messages_of(p, Texts, BOOLEAN)

app_post_messages_chat(p) ==
  /\ pc[p] = "post_messages_chat"
  /\ IF LookupFailed(p)
     THEN Respond(p, NotFound) /\ req' = req
     ELSE /\ req' = [req EXCEPT ![p].chat = out[p].val, ![p].role = "user",
                                ![p].ts = IsoString(now),
                                ![p].ret = "post_messages_added"]
          /\ Goto(p, "addMessage_insert")
          /\ out' = out
  /\ UNCHANGED <<world, stream>>

app_post_messages_added(p) ==
  /\ pc[p] = "post_messages_added"
  /\ IF req[p].autoTitle /\ req[p].chat.title = "New Chat"
     THEN /\ req' = [req EXCEPT ![p].title = generateChatTitle(req[p].content),
                                ![p].ret = "post_messages_titled"]
          /\ Goto(p, "updateChatTitle")
     ELSE /\ req' = [req EXCEPT ![p].ret = "post_messages_all"]
          /\ Goto(p, "getChatMessages_getChat")
  /\ UNCHANGED <<world, out, stream>>

app_post_messages_titled(p) ==
  /\ pc[p] = "post_messages_titled"
  /\ req' = [req EXCEPT ![p].ret = "post_messages_all"]
  /\ Goto(p, "getChatMessages_getChat")
  /\ UNCHANGED <<world, out, stream>>

\* the context is read: without the key 500, else the response is the stream
\* and start() calls the upstream
app_post_messages_all(p) ==
  /\ pc[p] = "post_messages_all"
  /\ IF ~req[p].apiKey
     THEN /\ Respond(p, Response(500, "API key not configured"))
          /\ UNCHANGED <<req, stream>>
     ELSE /\ req' = [req EXCEPT ![p].all = out[p].val, ![p].catch = "start_catch"]
          /\ stream' = [stream EXCEPT ![p].open = TRUE,
                                      ![p].contents = GeminiContents(out[p].val)]
          /\ Goto(p, "generateContentStream")
          /\ out' = out
  /\ UNCHANGED world

\* catch (error) around the setup
app_post_messages_catch(p) ==
  /\ pc[p] = "post_messages_catch"
  /\ Respond(p, SetupError)
  /\ UNCHANGED <<world, req, stream>>

\* ---- POST /api/chat, up to the response: no store, no authentication
app_post_chat(p) ==
  /\ pc[p] = "idle"
  /\ \E bodyOk \in BOOLEAN, apiKey \in BOOLEAN :
       LET frame == [IdleReq EXCEPT !.op = POST_chat, !.bodyOk = bodyOk,
                                    !.apiKey = apiKey, !.catch = "start_catch"] IN
       /\ bodyOk \/ apiKey
       /\ req' = [req EXCEPT ![p] = frame]
       /\ IF ~bodyOk THEN Respond(p, SetupError) /\ stream' = stream
          ELSE IF ~apiKey
          THEN Respond(p, Response(500, "API key not configured")) /\ stream' = stream
          ELSE /\ stream' = [stream EXCEPT ![p].open = TRUE]
               /\ Goto(p, "generateContentStream")
               /\ out' = out
  /\ UNCHANGED world

\* ---- ReadableStream.start of both streaming routes
Enqueue(events, e) == Append(events, e)

\* await model.generateContentStream resolves
start_generateContentStream(p) ==
  /\ pc[p] = "generateContentStream"
  /\ Goto(p, "for_await")
  /\ UNCHANGED <<world, req, out, stream>>

\* the upstream call or the iteration of its stream rejects
UpstreamFailure(p) ==
  /\ pc[p] \in {"generateContentStream", "for_await"}
  /\ stream' = [stream EXCEPT ![p].upstream = "failed"]
  /\ Throw(p)
  /\ UNCHANGED <<world, req>>

\* for await: the upstream yields a chunk with one of texts; a chunk with
\* text is accumulated and its first mini chunk enqueued
start_chunk_of(p, texts) ==
  /\ pc[p] = "for_await"
  /\ stream[p].pulled < MaxFrags
  /\ \E chunkText \in texts :
       IF chunkText # ""
       THEN /\ stream' = [stream EXCEPT
                 ![p].pulled = @ + 1, ![p].chunkText = chunkText, ![p].i = 0,
                 ![p].assistantResponse = IF Persisted(p) THEN @ \o chunkText ELSE @,
                 ![p].events = Enqueue(@, ContentEvent(miniChunk(chunkText, 0)))]
            /\ Goto(p, "setTimeout")
       ELSE /\ stream' = [stream EXCEPT ![p].pulled = @ + 1]
            /\ pc' = pc
  /\ UNCHANGED <<world, req, out>>

start_chunk(p) == start_chunk_of(p, Fragments)

\* the delay after a mini chunk is over: the next mini chunk, or the next chunk
start_setTimeout(p) ==
  /\ pc[p] = "setTimeout"
  /\ LET i == stream[p].i + MiniChunk IN
     IF i < Len(stream[p].chunkText)
     THEN /\ stream' = [stream EXCEPT
               ![p].i = i,
               ![p].events = Enqueue(@, ContentEvent(miniChunk(stream[p].chunkText, i)))]
          /\ pc' = pc
     ELSE /\ stream' = [stream EXCEPT ![p].i = 0, ![p].chunkText = ""]
          /\ Goto(p, "for_await")
  /\ UNCHANGED <<world, req, out>>

\* the upstream stream is over: the accumulated text is saved, or there is
\* nothing to save and done is enqueued
start_end(p) ==
  /\ pc[p] = "for_await"
  /\ IF Persisted(p) /\ PersistsResponse(stream[p].assistantResponse)
     THEN /\ stream' = [stream EXCEPT ![p].upstream = "ended"]
          /\ req' = [req EXCEPT ![p].role = "assistant",
                                ![p].content = stream[p].assistantResponse,
                                ![p].ts = IsoString(now),
                                ![p].ret = "start_saved"]
          /\ Goto(p, "addMessage_insert")
     ELSE /\ stream' = [stream EXCEPT ![p].upstream = "ended",
                                      ![p].events = Enqueue(@, DoneEvent),
                                      ![p].closed = TRUE]
          /\ req' = req
          /\ Goto(p, "done")
  /\ UNCHANGED <<world, out>>

\* addMessage has returned: done is enqueued and the stream closed
start_saved(p) ==
  /\ pc[p] = "start_saved"
  /\ stream' = [stream EXCEPT ![p].saved = Append(@, out[p].val),
                              ![p].events = Enqueue(@, DoneEvent),
                              ![p].closed = TRUE]
  /\ Goto(p, "done")
  /\ UNCHANGED <<world, req, out>>

\* a catch that falls through to the done event
start_catch_fallthrough(p) ==
  /\ pc[p] = "start_catch"
  /\ stream' = [stream EXCEPT
       ![p].events = Enqueue(Enqueue(@, ErrorEvent), DoneEvent),
       ![p].closed = TRUE]
  /\ Goto(p, "done")
  /\ UNCHANGED <<world, req, out>>

\* catch (error) of start(): the error event, then close
start_catch(p) ==
  /\ pc[p] = "start_catch"
  /\ stream' = [stream EXCEPT ![p].events = Enqueue(@, ErrorEvent),
                              ![p].closed = TRUE]
  /\ Goto(p, "done")
  /\ UNCHANGED <<world, req, out>>

\* ---- the worker
Init == backend = "d1" /\ InitCommon

\* The worker serving concurrent requests.  No route decides on a timestamp:
\* the clock stands still.
Next ==
  \/ \E p \in Procs : Finish(p)
  \/ \E p \in Procs : Sched(p) /\ app_get_chat(p)
  \/ \E p \in Procs : Sched(p) /\ app_post_chats(p)
  \/ \E p \in Procs : Sched(p) /\ app_patch_chat(p)
  \/ \E p \in Procs : Sched(p) /\ app_delete_chat(p)
  \/ \E p \in Procs : Sched(p) /\ app_post_messages(p)
  \/ \E p \in Procs : Sched(p) /\ app_post_chat(p)
  \/ \E p \in Procs : Sched(p) /\ D1_getChat(p)
  \/ \E p \in Procs : Sched(p) /\ D1_createChat(p)
  \/ \E p \in Procs : Sched(p) /\ D1_updateChatTitle(p)
  \/ \E p \in Procs : Sched(p) /\ D1_deleteChat_messages(p)
  \/ \E p \in Procs : Sched(p) /\ D1_deleteChat_chat(p)
  \/ \E p \in Procs : Sched(p) /\ D1_getChatMessages_getChat(p)
  \/ \E p \in Procs : Sched(p) /\ D1_getChatMessages_select(p)
  \/ \E p \in Procs : Sched(p) /\ D1_addMessage_insert(p)
  \/ \E p \in Procs : Sched(p) /\ D1_addMessage_touchChat(p)
  \/ \E p \in Procs : Sched(p) /\ onError(p)
  \/ \E p \in Procs : Sched(p) /\ app_get_chat_chat(p)
  \/ \E p \in Procs : Sched(p) /\ app_get_chat_messages(p)
  \/ \E p \in Procs : Sched(p) /\ app_post_chats_chat(p)
  \/ \E p \in Procs : Sched(p) /\ app_patch_chat_chat(p)
  \/ \E p \in Procs : Sched(p) /\ app_delete_chat_chat(p)
  \/ \E p \in Procs : Sched(p) /\ app_success(p)
  \/ \E p \in Procs : Sched(p) /\ app_post_messages_chat(p)
  \/ \E p \in Procs : Sched(p) /\ app_post_messages_added(p)
  \/ \E p \in Procs : Sched(p) /\ app_post_messages_titled(p)
  \/ \E p \in Procs : Sched(p) /\ app_post_messages_all(p)
  \/ \E p \in Procs : Sched(p) /\ app_post_messages_catch(p)
  \/ \E p \in Procs : Sched(p) /\ start_generateContentStream(p)
  \/ \E p \in Procs : Sched(p) /\ start_chunk(p)
  \/ \E p \in Procs : Sched(p) /\ start_setTimeout(p)
  \/ \E p \in Procs : Sched(p) /\ start_end(p)
  \/ \E p \in Procs : Sched(p) /\ start_saved(p)
  \/ \E p \in Procs : Sched(p) /\ start_catch(p)
  \/ \E p \in Procs : Sched(p) /\ StoreFailure(p)
  \/ \E p \in Procs : Sched(p) /\ UpstreamFailure(p)

Spec == Init /\ [][Next]_vars

\* The two streaming routes and the creation of chats.
Relay(p) ==
  \/ D1_getChat(p)
  \/ D1_createChat(p)
  \/ D1_updateChatTitle(p)
  \/ D1_getChatMessages_getChat(p)
  \/ D1_getChatMessages_select(p)
  \/ D1_addMessage_insert(p)
  \/ D1_addMessage_touchChat(p)
  \/ app_post_chats_chat(p)
  \/ app_post_messages_chat(p)
  \/ app_post_messages_added(p)
  \/ app_post_messages_titled(p)
  \/ app_post_messages_all(p)
  \/ app_post_messages_catch(p)
  \/ onError(p)
  \/ start_generateContentStream(p)
  \/ start_chunk(p)
  \/ start_setTimeout(p)
  \/ start_end(p)
  \/ start_saved(p)
  \/ start_catch(p)
  \/ StoreFailure(p)
  \/ UpstreamFailure(p)

NextRelay ==
  \/ \E p \in Procs : Finish(p)
  \/ \E p \in Procs : Sched(p) /\ app_post_chats(p)
  \/ \E p \in Procs : Sched(p) /\ app_post_messages(p)
  \/ \E p \in Procs : Sched(p) /\ app_post_chat(p)
  \/ \E p \in Procs : Sched(p) /\ D1_getChat(p)
  \/ \E p \in Procs : Sched(p) /\ D1_createChat(p)
  \/ \E p \in Procs : Sched(p) /\ D1_updateChatTitle(p)
  \/ \E p \in Procs : Sched(p) /\ D1_getChatMessages_getChat(p)
  \/ \E p \in Procs : Sched(p) /\ D1_getChatMessages_select(p)
  \/ \E p \in Procs : Sched(p) /\ D1_addMessage_insert(p)
  \/ \E p \in Procs : Sched(p) /\ D1_addMessage_touchChat(p)
  \/ \E p \in Procs : Sched(p) /\ app_post_chats_chat(p)
  \/ \E p \in Procs : Sched(p) /\ app_post_messages_chat(p)
  \/ \E p \in Procs : Sched(p) /\ app_post_messages_added(p)
  \/ \E p \in Procs : Sched(p) /\ app_post_messages_titled(p)
  \/ \E p \in Procs : Sched(p) /\ app_post_messages_all(p)
  \/ \E p \in Procs : Sched(p) /\ app_post_messages_catch(p)
  \/ \E p \in Procs : Sched(p) /\ onError(p)
  \/ \E p \in Procs : Sched(p) /\ start_generateContentStream(p)
  \/ \E p \in Procs : Sched(p) /\ start_chunk(p)
  \/ \E p \in Procs : Sched(p) /\ start_setTimeout(p)
  \/ \E p \in Procs : Sched(p) /\ start_end(p)
  \/ \E p \in Procs : Sched(p) /\ start_saved(p)
  \/ \E p \in Procs : Sched(p) /\ start_catch(p)
  \/ \E p \in Procs : Sched(p) /\ StoreFailure(p)
  \/ \E p \in Procs : Sched(p) /\ UpstreamFailure(p)

\* Every await of a request in flight settles, and the upstream stream is
\* finite (MaxFrags): a request that can move does move.
Fairness ==
  \A p \in Procs : WF_vars(Finish(p)) /\ SF_vars(Sched(p) /\ Relay(p))

SpecRelay == Init /\ [][NextRelay]_vars /\ Fairness

\* The streaming routes with upstream chunks of every length up to two mini
\* chunks and a rest; the store does not fail here.
ChunkTexts ==
  {"", "a", "ab", "abc", "abcd", "abcdef",
   "abcdefg"}

start_chunk_any(p) == start_chunk_of(p, ChunkTexts)

send_message(p) ==
  /\ app_post_messages(p)
  /\ req'[p].bodyOk /\ req'[p].apiKey /\ ~req'[p].autoTitle

NextChunks ==
  \/ \E p \in Procs : Finish(p)
  \/ \E p \in Procs : Turn(p) /\ app_post_chats(p)
  \/ \E p \in Procs : Turn(p) /\ send_message(p)
  \/ \E p \in Procs : Turn(p) /\ app_post_chat(p)
  \/ \E p \in Procs : Turn(p) /\ start_chunk_any(p)
  \/ \E p \in Procs : Turn(p) /\ D1_getChat(p)
  \/ \E p \in Procs : Turn(p) /\ D1_createChat(p)
  \/ \E p \in Procs : Turn(p) /\ D1_getChatMessages_getChat(p)
  \/ \E p \in Procs : Turn(p) /\ D1_getChatMessages_select(p)
  \/ \E p \in Procs : Turn(p) /\ D1_addMessage_insert(p)
  \/ \E p \in Procs : Turn(p) /\ D1_addMessage_touchChat(p)
  \/ \E p \in Procs : Turn(p) /\ app_post_chats_chat(p)
  \/ \E p \in Procs : Turn(p) /\ app_post_messages_chat(p)
  \/ \E p \in Procs : Turn(p) /\ app_post_messages_added(p)
  \/ \E p \in Procs : Turn(p) /\ app_post_messages_all(p)
  \/ \E p \in Procs : Turn(p) /\ start_generateContentStream(p)
  \/ \E p \in Procs : Turn(p) /\ start_setTimeout(p)
  \/ \E p \in Procs : Turn(p) /\ start_end(p)
  \/ \E p \in Procs : Turn(p) /\ start_saved(p)
  \/ \E p \in Procs : Turn(p) /\ start_catch(p)
  \/ \E p \in Procs : Turn(p) /\ UpstreamFailure(p)

SpecChunks == Init /\ [][NextChunks]_vars

\* The title function by itself: two callers hold the same first message and
\* each calls one of the three copies.
Letters == "abcdefghijklmnopqrstuvwxyzABCDEFGHIJKLMNOPQRSTUVWXYZ0123456789"

FirstMessages ==
  LET lens == {0, 1, 8, 9, 10, 11, 58, 59, 60, 61}
      pads == {"", " ", "\n "}
      bodies ==
        {SubSeq(Letters, 1, n) : n \in lens}
        \cup {SubSeq(Letters, 1, 2) \o w \o SubSeq(Letters, 4, n) :
                n \in lens \ {0, 1}, w \in {"\n", " \n"}}
        \cup {SubSeq(Letters, 1, n) \o "\n" \o "z" : n \in {8, 9, 58, 59, 60}}
  IN {l \o b \o r : l \in pads, b \in bodies, r \in pads}

InitTitle ==
  /\ backend = "d1"
  /\ now = 0 /\ chats = {} /\ messages = <<>> /\ nextChat = 0 /\ nextMsg = 0
  /\ pc = [p \in Procs |-> "generateChatTitle"]
  /\ \E firstMessage \in FirstMessages :
       req = [p \in Procs |-> [IdleReq EXCEPT !.content = firstMessage]]
  /\ out = [p \in Procs |-> NoResult]
  /\ stream = [p \in Procs |-> NoStream]
  /\ inflight = {} /\ appended = {} /\ disturbed = {} /\ deleted = {} /\ users = {} /\ page = NoPage

call_generateChatTitle(p, copy) ==
  /\ pc[p] = "generateChatTitle"
  /\ req' = [req EXCEPT ![p].op = copy]
  /\ Respond(p, Result("title",
       CASE copy = "database" -> generateChatTitle(req[p].content)
         [] copy = "user-chat" -> generateChatTitle_userChat(req[p].content)
         [] copy = "anonymous-chat" -> generateChatTitle_anonymousChat(req[p].content)))
  /\ UNCHANGED <<backend, now, chats, messages, nextChat, nextMsg, stream, inflight,
                 appended, disturbed, deleted, users, page>>

NextTitle ==
  \/ \E p \in Procs : Finish(p)
  \/ \E p \in Procs : call_generateChatTitle(p, "database")
  \/ \E p \in Procs : call_generateChatTitle(p, "user-chat")
  \/ \E p \in Procs : call_generateChatTitle(p, "anonymous-chat")

SpecTitle == InitTitle /\ [][NextTitle]_vars

\* Chats are created and messages sent to them one request at a time, short
\* and long ones, with and without autoTitle; no provider key is configured,
\* so that a request ends once the context is read, and a statement of the
\* store may reject.
send_first_or_later(p) ==
  /\ app_post_messages_of(p, {"hi", "Tell me about the Eiffel Tower"}, {FALSE})
  /\ req'[p].bodyOk

NextAutoTitle ==
  \/ \E p \in Procs : Finish(p)
  \/ Free /\ Tick
  \/ \E p \in Procs : Turn(p) /\ app_post_chats(p)
  \/ \E p \in Procs : Turn(p) /\ send_first_or_later(p)
  \/ \E p \in Procs : Turn(p) /\ D1_getChat(p)
  \/ \E p \in Procs : Turn(p) /\ D1_createChat(p)
  \/ \E p \in Procs : Turn(p) /\ D1_updateChatTitle(p)
  \/ \E p \in Procs : Turn(p) /\ D1_getChatMessages_getChat(p)
  \/ \E p \in Procs : Turn(p) /\ D1_getChatMessages_select(p)
  \/ \E p \in Procs : Turn(p) /\ D1_addMessage_insert(p)
  \/ \E p \in Procs : Turn(p) /\ D1_addMessage_touchChat(p)
  \/ \E p \in Procs : Turn(p) /\ app_post_chats_chat(p)
  \/ \E p \in Procs : Turn(p) /\ app_post_messages_chat(p)
  \/ \E p \in Procs : Turn(p) /\ app_post_messages_added(p)
  \/ \E p \in Procs : Turn(p) /\ app_post_messages_titled(p)
  \/ \E p \in Procs : Turn(p) /\ app_post_messages_all(p)
  \/ \E p \in Procs : Turn(p) /\ app_post_messages_catch(p)
  \/ \E p \in Procs : Turn(p) /\ onError(p)
  \/ \E p \in Procs : Turn(p) /\ StoreFailure(p)

SpecAutoTitle == Init /\ [][NextAutoTitle]_vars

\* The routes under /api/chats behind their middleware, one request at a
\* time: the handler of the route runs when the middleware calls next().
\* Neither the store nor the upstream fails here.
NextAuth ==
  \/ \E p \in Procs : Finish(p)
  \/ \E p \in Procs : Turn(p) /\ app_use_chats(p)
  \/ \E p \in Procs : Turn(p) /\ req[p].op = GET_chats /\ pc[p] = "next"
                       /\ app_get_chats(p)
  \/ \E p \in Procs : Turn(p) /\ req[p].op = GET_chat /\ pc[p] = "next"
                       /\ app_get_chat(p)
  \/ \E p \in Procs : Turn(p) /\ req[p].op = POST_chats /\ pc[p] = "next"
                       /\ app_post_chats(p)
  \/ \E p \in Procs : Turn(p) /\ req[p].op = PATCH_chat /\ pc[p] = "next"
                       /\ app_patch_chat(p)
  \/ \E p \in Procs : Turn(p) /\ req[p].op = DELETE_chat /\ pc[p] = "next"
                       /\ app_delete_chat(p)
  \/ \E p \in Procs : Turn(p) /\ req[p].op = POST_messages /\ pc[p] = "next"
                       /\ app_post_messages(p)
  \/ \E p \in Procs : Turn(p) /\ D1_ensureUser(p)
  \/ \E p \in Procs : Turn(p) /\ D1_ensureUser_update(p)
  \/ \E p \in Procs : Turn(p) /\ D1_ensureUser_insert(p)
  \/ \E p \in Procs : Turn(p) /\ D1_getUserChats(p)
  \/ \E p \in Procs : Turn(p) /\ D1_getChat(p)
  \/ \E p \in Procs : Turn(p) /\ D1_createChat(p)
  \/ \E p \in Procs : Turn(p) /\ D1_updateChatTitle(p)
  \/ \E p \in Procs : Turn(p) /\ D1_deleteChat_messages(p)
  \/ \E p \in Procs : Turn(p) /\ D1_deleteChat_chat(p)
  \/ \E p \in Procs : Turn(p) /\ D1_getChatMessages_getChat(p)
  \/ \E p \in Procs : Turn(p) /\ D1_getChatMessages_select(p)
  \/ \E p \in Procs : Turn(p) /\ D1_addMessage_insert(p)
  \/ \E p \in Procs : Turn(p) /\ D1_addMessage_touchChat(p)
  \/ \E p \in Procs : Turn(p) /\ app_get_chats_chats(p)
  \/ \E p \in Procs : Turn(p) /\ app_get_chat_chat(p)
  \/ \E p \in Procs : Turn(p) /\ app_get_chat_messages(p)
  \/ \E p \in Procs : Turn(p) /\ app_post_chats_chat(p)
  \/ \E p \in Procs : Turn(p) /\ app_patch_chat_chat(p)
  \/ \E p \in Procs : Turn(p) /\ app_delete_chat_chat(p)
  \/ \E p \in Procs : Turn(p) /\ app_success(p)
  \/ \E p \in Procs : Turn(p) /\ app_post_messages_chat(p)
  \/ \E p \in Procs : Turn(p) /\ app_post_messages_added(p)
  \/ \E p \in Procs : Turn(p) /\ app_post_messages_titled(p)
  \/ \E p \in Procs : Turn(p) /\ app_post_messages_all(p)
  \/ \E p \in Procs : Turn(p) /\ start_generateContentStream(p)
  \/ \E p \in Procs : Turn(p) /\ start_chunk(p)
  \/ \E p \in Procs : Turn(p) /\ start_setTimeout(p)
  \/ \E p \in Procs : Turn(p) /\ start_end(p)
  \/ \E p \in Procs : Turn(p) /\ start_saved(p)

SpecAuth == Init /\ [][NextAuth]_vars

\* Requests for the list of chats arrive together behind the middleware, so
\* that the statements of their ensureUser calls interleave.
\* The users come with the header of the access proxy, with or without a
\* name in their token.
use_chats_for_list(p) ==
  /\ app_use_chats(p)
  /\ req'[p].op = GET_chats /\ req'[p].NODE_ENV = "production"
  /\ req'[p].headers.devEmail = "" /\ req'[p].headers.devName = ""

NextUsers ==
  \/ \E p \in Procs : Finish(p)
  \/ \E p \in Procs : Sched(p) /\ use_chats_for_list(p)
  \/ \E p \in Procs : Sched(p) /\ D1_ensureUser(p)
  \/ \E p \in Procs : Sched(p) /\ D1_ensureUser_update(p)
  \/ \E p \in Procs : Sched(p) /\ D1_ensureUser_insert(p)
  \/ \E p \in Procs : Sched(p) /\ pc[p] = "next" /\ app_get_chats(p)
  \/ \E p \in Procs : Sched(p) /\ D1_getUserChats(p)
  \/ \E p \in Procs : Sched(p) /\ app_get_chats_chats(p)
  \/ \E p \in Procs : Sched(p) /\ onError(p)

SpecUsers == Init /\ [][NextUsers]_vars

\* Sends follow and overlap one another and the deletes of chats on one
\* worker: every send has a body and finds the provider key, the upstream
\* answers with one fragment or none, and no statement fails but an insert
\* that finds its chat gone.
send_with_key(p) ==
  /\ app_post_messages_upto(p, Texts, {TRUE}, MaxHistoryMsgs)
  /\ req'[p].bodyOk /\ ~req'[p].autoTitle

start_chunk_short(p) == start_chunk_of(p, {"", "ab"}) /\ stream[p].pulled = 0

NextHistory ==
  \/ \E p \in Procs : Finish(p)
  \/ \E p \in Procs : Sched(p) /\ app_post_chats(p)
  \/ \E p \in Procs : Sched(p) /\ send_with_key(p)
  \/ \E p \in Procs : Sched(p) /\ start_chunk_short(p)
  \/ \E p \in Procs : Sched(p) /\ D1_getChat(p)
  \/ \E p \in Procs : Sched(p) /\ D1_createChat(p)
  \/ \E p \in Procs : Sched(p) /\ D1_getChatMessages_getChat(p)
  \/ \E p \in Procs : Sched(p) /\ D1_getChatMessages_select(p)
  \/ \E p \in Procs : Sched(p) /\ D1_addMessage_insert(p)
  \/ \E p \in Procs : Sched(p) /\ D1_addMessage_touchChat(p)
  \/ \E p \in Procs : Sched(p) /\ app_post_chats_chat(p)
  \/ \E p \in Procs : Sched(p) /\ app_post_messages_chat(p)
  \/ \E p \in Procs : Sched(p) /\ app_post_messages_added(p)
  \/ \E p \in Procs : Sched(p) /\ app_post_messages_all(p)
  \/ \E p \in Procs : Sched(p) /\ start_generateContentStream(p)
  \/ \E p \in Procs : Sched(p) /\ start_setTimeout(p)
  \/ \E p \in Procs : Sched(p) /\ start_end(p)
  \/ \E p \in Procs : Sched(p) /\ start_saved(p)
  \/ \E p \in Procs : Sched(p) /\ app_delete_chat(p)
  \/ \E p \in Procs : Sched(p) /\ app_delete_chat_chat(p)
  \/ \E p \in Procs : Sched(p) /\ app_success(p)
  \/ \E p \in Procs : Sched(p) /\ D1_deleteChat_messages(p)
  \/ \E p \in Procs : Sched(p) /\ D1_deleteChat_chat(p)
  \/ \E p \in Procs : Sched(p) /\ app_post_messages_catch(p)
  \/ \E p \in Procs : Sched(p) /\ start_catch(p)

SpecHistory == Init /\ [][NextHistory]_vars

\* ------------------------------------------------- react-app, the chat pages
\* One chat page is mounted.  page holds the state of the component as its
\* last render shows it.  run[p] holds what the invocation p of the send
\* handler works with: the values of currentChat and messages of the render
\* that created the handler (they stay what they were when it was invoked,
\* whatever is set meanwhile), the locals of sendMessageToAI, and a record of
\* what the invocation has met.  Every await is one step; the statements
\* between two awaits run at labels no other invocation interleaves with.
\* The effects that load the list of chats and the messages of a selected
\* chat, and the handlers that select, rename and delete a chat, are not
\* followed; of the persistence hook the stored user message is kept and the
\* delayed placeholder answer is not.
MaxSends == 2      \* submissions one page accepts
MaxReads == 2      \* chunks one response body yields
MaxPageChats == 2  \* chats one page creates

Variants ==
  {"AuthenticatedChatPage", "AnonymousChatPage", "SimpleChat", "ChatPage",
   "PersistentChatPage"}

StoredVariants == {"AuthenticatedChatPage", "AnonymousChatPage"}

\* the typing cursor behind the text received so far ('|'; ChatPage draws a
\* block in its place)
Cursor == "|"

PageInputs == {"", "hi"}

\* what one read of the body yields: lines 'data: {...}' of one chunk
Chunks ==
  {<<ContentEvent("ab")>>, <<DoneEvent>>, <<ContentEvent("ab"), DoneEvent>>,
   <<[type |-> "error", data |-> "Failed to generate response"]>>}

\* the error field of a response that is not OK
ServerErrors == {"API key not configured", "Invalid messages format"}

\* userId of the signed-in user, or the session id of localStorage
PageUser == IF page.variant = "AnonymousChatPage" THEN "anon_1" ELSE "u1"

PageTitle(text) ==
  IF page.variant = "AnonymousChatPage" THEN generateChatTitle_anonymousChat(text)
  ELSE generateChatTitle_userChat(text)

\* String.prototype.includes
Includes(s, t) ==
  \E i \in 1..(Len(s) - Len(t) + 1) : SubSeq(s, i, i + Len(t) - 1) = t

\* setMessages(prev => prev.map(msg => msg.id === assistantMessage.id ? ...))
WithContent(msgs, id, content) ==
  [i \in 1..Len(msgs) |->
     IF msgs[i].id = id THEN [msgs[i] EXCEPT !.content = content] ELSE msgs[i]]

\* the stored assistant messages of a chat
StoredAnswers(chatId) ==
  Len(SelectSeq(messages, LAMBDA m : m.chat_id = chatId /\ m.role = "assistant"))

\* the page awaits a function of its store module: addUserMessage and
\* updateUserChatTitle check the owner first, the functions of the anonymous
\* store and of the persistence hook go to the documents at once
PageCall(p, op, chatId, title, role, content, ret, catch) ==
  LET direct == page.variant # "AuthenticatedChatPage"
      label == IF op = "createUserChat" THEN op
               ELSE IF direct
               THEN (IF op = "addUserMessage" THEN "addUserMessage_addDoc"
                     ELSE "updateUserChatTitle_updateDoc")
               ELSE Entry(op)
  IN /\ req' = [req EXCEPT ![p] =
          [CallFrame(op, PageUser, chatId, title, role, content) EXCEPT
             !.title = title, !.ts = FirestoreTimestamp(now),
             !.ret = ret, !.catch = catch]]
     /\ nextChat' = IF op = "createUserChat" THEN nextChat + 1 ELSE nextChat
     /\ Goto(p, label)

PageStep(p, label) == Goto(p, label) /\ UNCHANGED <<req, nextChat>>

PageRest == <<backend, now, chats, messages, nextMsg, out, stream, inflight,
              appended, disturbed, deleted, users>>

\* handleSendMessage / handleSubmit, up to its first await
handleSendMessage(p) ==
  /\ pc[p] = "idle"
  /\ page.sends < MaxSends
  /\ \E input \in PageInputs :
       LET v == page.variant
           messageText == IF v = "ChatPage" THEN input ELSE trim(input)
           create == v \in StoredVariants /\ Len(page.messages) = 0
                     /\ page.currentChat = 0
       IN IF trim(input) = "" \/ (v # "ChatPage" /\ page.isGenerating)
          THEN UNCHANGED <<page, pc, req, nextChat>>
          ELSE /\ page' = [page EXCEPT
                    !.isGenerating = TRUE,
                    !.error = IF v = "ChatPage" THEN @ ELSE "",
                    !.sends = @ + 1,
                    !.run[p] = [IdleRun EXCEPT !.text = messageText,
                                               !.chat = page.currentChat,
                                               !.n = Len(page.messages)]]
               /\ IF create
                  THEN PageCall(p, "createUserChat", 0, PageTitle(messageText),
                                "none", "", "page_created", "page_create_failed")
                  ELSE PageStep(p, "page_send")
  /\ UNCHANGED PageRest

\* handleNewChat: the explicit creation of a chat; SimpleChat has no store
\* and empties its list
handleNewChat(p) ==
  /\ pc[p] = "idle"
  /\ page.variant # "ChatPage"
  /\ IF page.variant = "SimpleChat"
     THEN /\ page' = [page EXCEPT !.messages = <<>>, !.error = ""]
          /\ UNCHANGED <<pc, req, nextChat>>
     ELSE /\ nextChat < MaxPageChats
          /\ page' = page
          /\ PageCall(p, "createUserChat", 0, "New Chat", "none", "",
                      "page_newChat", "page_newChat")
  /\ UNCHANGED PageRest

page_newChat(p) ==
  /\ pc[p] = "page_newChat"
  /\ page' = IF out[p].kind = "id"
             THEN [page EXCEPT !.currentChat = out[p].val, !.messages = <<>>,
                               !.error = ""]
             ELSE [page EXCEPT !.error = "Failed to create new chat"]
  /\ PageStep(p, "page_returned")
  /\ UNCHANGED PageRest

\* setChats, setCurrentChat(newChat): the state has the chat, the handler
\* that runs keeps the currentChat it was created with
page_created(p) ==
  /\ pc[p] = "page_created"
  /\ page' = [page EXCEPT !.currentChat = out[p].val,
                          !.run[p].created = out[p].val]
  /\ PageStep(p, "page_send")
  /\ UNCHANGED PageRest

\* catch of the implicit creation: setError, setIsGenerating(false), return
page_create_failed(p) ==
  /\ pc[p] = "page_create_failed"
  /\ page' = [page EXCEPT !.error = "Failed to create chat", !.isGenerating = FALSE]
  /\ PageStep(p, "page_returned")
  /\ UNCHANGED PageRest

\* the user message goes to the list and, where the page stores, to the chat
\* the handler knows
page_send(p) ==
  /\ pc[p] = "page_send"
  /\ LET run == page.run[p] IN
     /\ page' = [page EXCEPT
          !.messages = Append(@, [id |-> page.ids + 1, role |-> "user",
                                  content |-> run.text]),
          !.ids = @ + 1]
     /\ IF page.variant \in StoredVariants /\ run.chat # 0
        THEN PageCall(p, "addUserMessage", run.chat, "", "user", run.text,
                      "page_user_saved", "page_catch")
        ELSE PageStep(p, "page_ai")
  /\ UNCHANGED PageRest

\* after addUserMessage: the title follows the first message
page_user_saved(p) ==
  /\ pc[p] = "page_user_saved"
  /\ LET run == page.run[p] IN
     /\ page' = [page EXCEPT !.run[p].userSaved = TRUE]
     /\ IF run.n = 0
        THEN PageCall(p, "updateUserChatTitle", run.chat, PageTitle(run.text),
                      "none", "", "page_ai", "page_catch")
        ELSE PageStep(p, "page_ai")
  /\ UNCHANGED PageRest

\* sendMessageToAI, up to its first await
page_ai(p) ==
  /\ pc[p] = "page_ai"
  /\ LET v == page.variant
         run == page.run[p]
         fetching == [page EXCEPT !.fetches = @ + 1, !.run[p].fetched = TRUE,
                                  !.run[p].base = StoredAnswers(run.chat)]
     IN CASE v \in StoredVariants ->
               IF run.chat = 0
               THEN page' = page /\ PageStep(p, "page_finally")
               ELSE page' = fetching /\ PageStep(p, "page_fetch")
          [] v = "PersistentChatPage" ->
               IF run.chat = 0
               THEN /\ page' = page
                    /\ PageCall(p, "createUserChat", 0, "New Chat", "none", "",
                                "page_new_chat", "page_new_chat")
               ELSE \* sendMessage of the hook stores the user message first
                    /\ page' = fetching
                    /\ PageCall(p, "addUserMessage", run.chat, "", "user", run.text,
                                "page_fetch", "page_fetch")
          [] OTHER -> page' = fetching /\ PageStep(p, "page_fetch")
  /\ UNCHANGED PageRest

\* PersistentChatPage after createNewChat: the hook has set its currentChat,
\* the handler reads the one it was created with and returns
page_new_chat(p) ==
  /\ pc[p] = "page_new_chat"
  /\ page' = IF out[p].kind = "id"
             THEN [page EXCEPT !.currentChat = out[p].val,
                               !.run[p].created = out[p].val]
             ELSE [page EXCEPT !.error = "Failed to create chat"]
  /\ PageStep(p, "page_finally")
  /\ UNCHANGED PageRest

\* await fetch(...) / sendMessage(...) resolves or rejects; the placeholder of
\* the answer is added to the list when the response is OK
page_fetch(p) ==
  /\ pc[p] = "page_fetch"
  /\ LET v == page.variant
         detailed == v \in {"AuthenticatedChatPage", "SimpleChat"}
         placed == [page EXCEPT
                      !.messages = Append(@, [id |-> page.ids + 1,
                                     role |-> "assistant", content |-> ""]),
                      !.ids = @ + 1,
                      !.run[p].assistant = page.ids + 1]
     IN \/ /\ page' = [page EXCEPT !.run[p].thrown = "Failed to fetch"]
           /\ PageStep(p, "page_ai_catch")
        \/ /\ v = "PersistentChatPage"        \* sendMessage gave null
           /\ page' = page
           /\ PageStep(p, "page_done_ai")
        \/ \E e \in ServerErrors :
             /\ page' = [page EXCEPT !.run[p].thrown =
                           IF detailed THEN e ELSE "Failed to get response"]
             /\ PageStep(p, "page_ai_catch")
        \/ /\ page' = [placed EXCEPT !.run[p].thrown =
                         IF detailed THEN "No response received from server"
                         ELSE "No response body"]
           /\ PageStep(p, "page_ai_catch")
        \/ /\ page' = placed
           /\ PageStep(p, "page_read")
  /\ UNCHANGED PageRest

\* await reader.read(): a chunk, the end of the body, or a failure
page_read(p) ==
  /\ pc[p] = "page_read"
  /\ LET run == page.run[p]
         finalized == [page EXCEPT
                         !.messages = WithContent(@, run.assistant, run.fullContent)]
     IN \/ \E chunk \in Chunks :
             /\ run.reads < MaxReads
             /\ page' = [page EXCEPT !.run[p].lines = chunk, !.run[p].reads = @ + 1]
             /\ PageStep(p, "page_line")
        \/ /\ page' = IF page.variant = "ChatPage" THEN finalized ELSE page
           /\ PageStep(p, "page_done_ai")
        \/ /\ page' = [finalized EXCEPT !.run[p].thrown = "network error"]
           /\ PageStep(p, "page_ai_catch")
  /\ UNCHANGED PageRest

\* one line of the chunk, inside try { JSON.parse ... } catch (e) { warn }
page_line(p) ==
  /\ pc[p] = "page_line"
  /\ LET v == page.variant
         run == page.run[p]
         finalized == [page EXCEPT
                         !.messages = WithContent(@, run.assistant, run.fullContent)]
     IN IF run.lines = <<>> THEN page' = page /\ PageStep(p, "page_read")
        ELSE LET data == Head(run.lines) IN
          CASE data.type = "done" ->
                 IF v \in StoredVariants
                 THEN /\ page' = [page EXCEPT !.run[p].sawDone = TRUE]
                      /\ PageCall(p, "addUserMessage", run.chat, "", "assistant",
                                  run.fullContent, "page_saved", "page_save_failed")
                 ELSE /\ page' = [finalized EXCEPT !.run[p].sawDone = TRUE]
                      /\ PageStep(p, "page_done_ai")
            [] data.type = "error" ->
                 \* throw new Error(data.error) is caught where the line is parsed
                 /\ page' = [(IF v = "ChatPage" THEN finalized ELSE page) EXCEPT
                               !.run[p].sawError = data.data,
                               !.run[p].lines = Tail(@)]
                 /\ PageStep(p, "page_line")
            [] OTHER ->
                 /\ page' =
                      IF data.data = ""
                      THEN [page EXCEPT !.run[p].lines = Tail(@)]
                      ELSE [page EXCEPT
                              !.messages = WithContent(@, run.assistant,
                                             run.fullContent \o data.data \o Cursor),
                              !.run[p].fullContent = @ \o data.data,
                              !.run[p].lines = Tail(@)]
                 /\ PageStep(p, "page_line")
  /\ UNCHANGED PageRest

\* the answer is stored: the cursor goes, sendMessageToAI returns
page_saved(p) ==
  /\ pc[p] = "page_saved"
  /\ page' = [page EXCEPT !.messages =
                WithContent(@, page.run[p].assistant, page.run[p].fullContent)]
  /\ PageStep(p, "page_done_ai")
  /\ UNCHANGED PageRest

\* the answer could not be stored: the authenticated page logs and goes on
\* as if it had; in the anonymous page the rejection lands in the catch of
\* the line and the loop goes on
page_save_failed(p) ==
  /\ pc[p] = "page_save_failed"
  /\ IF page.variant = "AuthenticatedChatPage"
     THEN /\ page' = [page EXCEPT !.messages =
                        WithContent(@, page.run[p].assistant, page.run[p].fullContent)]
          /\ PageStep(p, "page_done_ai")
     ELSE /\ page' = [page EXCEPT !.run[p].lines = Tail(@)]
          /\ PageStep(p, "page_line")
  /\ UNCHANGED PageRest

\* the outer catch of sendMessageToAI: the placeholder, if there is one,
\* shows the error, the authenticated page stores that text, and the error
\* is thrown on
page_ai_catch(p) ==
  /\ pc[p] = "page_ai_catch"
  /\ LET v == page.variant
         run == page.run[p]
         errorContent == "Error: " \o run.thrown
     IN IF v \in {"AuthenticatedChatPage", "SimpleChat"} /\ run.assistant # 0
        THEN /\ page' = [page EXCEPT
                  !.messages = WithContent(@, run.assistant, errorContent)]
             /\ IF v = "AuthenticatedChatPage"
                THEN PageCall(p, "addUserMessage", run.chat, "", "assistant",
                              errorContent, "page_catch", "page_catch")
                ELSE PageStep(p, "page_catch")
        ELSE page' = page /\ PageStep(p, "page_catch")
  /\ UNCHANGED PageRest

\* sendMessageToAI returned: PersistentChatPage reloads the chat it knows
page_done_ai(p) ==
  /\ pc[p] = "page_done_ai"
  /\ page' = page
  /\ IF page.variant = "PersistentChatPage" /\ page.run[p].chat # 0
     THEN PageStep(p, "page_loadChat")
     ELSE PageStep(p, "page_finally")
  /\ UNCHANGED PageRest

\* await loadChat(currentChat.id): the list becomes the stored messages
page_loadChat(p) ==
  /\ pc[p] = "page_loadChat"
  /\ LET stored == QueryMessages(page.run[p].chat) IN
     page' = [page EXCEPT !.messages =
                [i \in 1..Len(stored) |->
                   [id |-> page.ids + i, role |-> stored[i].role,
                    content |-> stored[i].content]],
              !.ids = @ + Len(stored)]
  /\ PageStep(p, "page_finally")
  /\ UNCHANGED PageRest

\* catch of the handler: an alert, or in ChatPage a message in the list
page_catch(p) ==
  /\ pc[p] = "page_catch"
  /\ LET v == page.variant
         errorMessage == IF page.run[p].thrown = "" THEN "Failed to send message"
                         ELSE page.run[p].thrown
         shown == \A t \in {"API key not configured", "Server error",
                            "No response received"} : ~Includes(errorMessage, t)
     IN page' = [page EXCEPT
          !.run[p].caught = TRUE,
          !.error = IF v \in {"AnonymousChatPage", "PersistentChatPage"}
                       \/ (v \in {"AuthenticatedChatPage", "SimpleChat"} /\ shown)
                    THEN errorMessage ELSE @,
          !.messages = IF v = "ChatPage"
                       THEN Append(@, [id |-> page.ids + 1, role |-> "assistant",
                              content |-> "Failed to get response. Please try again."])
                       ELSE @,
          !.ids = IF v = "ChatPage" THEN @ + 1 ELSE @]
  /\ PageStep(p, "page_finally")
  /\ UNCHANGED PageRest

\* finally { setIsGenerating(false) }
page_finally(p) ==
  /\ pc[p] = "page_finally"
  /\ page' = [page EXCEPT !.isGenerating = FALSE]
  /\ PageStep(p, "page_returned")
  /\ UNCHANGED PageRest

\* the promise of the handler settles and its locals go
page_returned(p) ==
  /\ pc[p] = "page_returned"
  /\ page' = [page EXCEPT !.run[p] = IdleRun]
  /\ pc' = [pc EXCEPT ![p] = "idle"]
  /\ req' = [req EXCEPT ![p] = IdleReq]
  /\ out' = [out EXCEPT ![p] = NoResult]
  /\ UNCHANGED <<backend, now, chats, messages, nextChat, nextMsg, stream,
                 inflight, appended, disturbed, deleted, users>>

\* ChatPage.stop: 'Stop generation requested'
stop ==
  /\ page.variant = "ChatPage" /\ page.isGenerating
  /\ page' = [page EXCEPT !.isGenerating = FALSE]
  /\ UNCHANGED <<backend, now, chats, messages, nextChat, nextMsg, pc, req, out,
                 stream, inflight, appended, disturbed, deleted, users>>

InitPage ==
  /\ backend = "firestore"
  /\ now = 0 /\ chats = {} /\ messages = <<>> /\ nextChat = 0 /\ nextMsg = 0
  /\ pc = [p \in Procs |-> "idle"]
  /\ req = [p \in Procs |-> IdleReq]
  /\ out = [p \in Procs |-> NoResult]
  /\ stream = [p \in Procs |-> NoStream]
  /\ inflight = {} /\ appended = {} /\ disturbed = {} /\ deleted = {} /\ users = {}
  /\ \E v \in Variants : page = [NoPage EXCEPT !.variant = v]

NextPage ==
  \/ Free /\ stop
  \/ \E p \in Procs : Sched(p) /\ handleSendMessage(p)
  \/ \E p \in Procs : Sched(p) /\ handleNewChat(p)
  \/ \E p \in Procs : Sched(p) /\ page_newChat(p)
  \/ \E p \in Procs : Sched(p) /\ page_created(p)
  \/ \E p \in Procs : Sched(p) /\ page_create_failed(p)
  \/ \E p \in Procs : Sched(p) /\ page_send(p)
  \/ \E p \in Procs : Sched(p) /\ page_user_saved(p)
  \/ \E p \in Procs : Sched(p) /\ page_ai(p)
  \/ \E p \in Procs : Sched(p) /\ page_new_chat(p)
  \/ \E p \in Procs : Sched(p) /\ page_fetch(p)
  \/ \E p \in Procs : Sched(p) /\ page_read(p)
  \/ \E p \in Procs : Sched(p) /\ page_line(p)
  \/ \E p \in Procs : Sched(p) /\ page_saved(p)
  \/ \E p \in Procs : Sched(p) /\ page_save_failed(p)
  \/ \E p \in Procs : Sched(p) /\ page_ai_catch(p)
  \/ \E p \in Procs : Sched(p) /\ page_done_ai(p)
  \/ \E p \in Procs : Sched(p) /\ page_loadChat(p)
  \/ \E p \in Procs : Sched(p) /\ page_catch(p)
  \/ \E p \in Procs : Sched(p) /\ page_finally(p)
  \/ \E p \in Procs : Sched(p) /\ page_returned(p)
  \/ \E p \in Procs : Sched(p) /\ FS_createUserChat(p)
  \/ \E p \in Procs : Sched(p) /\ FS_addUserMessage_getUserChat(p)
  \/ \E p \in Procs : Sched(p) /\ FS_addUserMessage_addDoc(p)
  \/ \E p \in Procs : Sched(p) /\ FS_addUserMessage_updateDoc(p)
  \/ \E p \in Procs : Sched(p) /\ FS_updateUserChatTitle_getUserChat(p)
  \/ \E p \in Procs : Sched(p) /\ FS_updateUserChatTitle_updateDoc(p)
  \/ \E p \in Procs : Sched(p) /\ StoreFailure(p)

SpecPage == InitPage /\ [][NextPage]_vars

\* ------------------------------------------------------------------ claims
Owns(c, u) == \E ch \in chats : ch.id = c /\ ch.user_id = u

OwnedByOther(c, u) == \E ch \in chats : ch.id = c /\ ch.user_id # u

MutatingOps == {"deleteChat", "updateChatTitle", "addMessage",
                "deleteUserChat", "updateUserChatTitle", "addUserMessage"}

ChatReadOps == {"getChat", "getUserChat"}

ListOps == {"getChatMessages", "getUserMessages"}

DeleteOps == {"deleteChat", "deleteUserChat"}

\* C1: no step of a mutating store call (delete, rename, append) whose chat
\* exists and belongs to another user than the caller changes the chats or
\* the messages of the store.
C1_ForeignMutationChangesNothing ==
  [][\A p \in Procs :
       (/\ pc'[p] # pc[p]
        /\ req[p].op \in MutatingOps
        /\ OwnedByOther(req[p].chatId, req[p].user))
       => (chats' = chats /\ messages' = messages)]_vars

\* C2: a read of a chat that is absent or owned by another user has returned
\* not-found (getChat) or the empty sequence (listMessages), not an error;
\* whatever a read returns belongs to a chat of the caller.
C2_ForeignReadIsEmpty ==
  \A p \in Procs :
    (pc[p] = "done" /\ req[p].op \in ChatReadOps \cup ListOps) =>
      /\ ~Owns(req[p].chatId, req[p].user) =>
           IF req[p].op \in ChatReadOps
           THEN out[p].kind = "chat" /\ out[p].val = NoChat
           ELSE out[p].kind = "rows" /\ out[p].val = <<>>
      /\ (out[p].kind = "chat" /\ out[p].val # NoChat) =>
           out[p].val.user_id = req[p].user
      /\ out[p].kind = "rows" =>
           \A i \in 1..Len(out[p].val) :
             /\ out[p].val[i].chat_id = req[p].chatId
             /\ Owns(req[p].chatId, req[p].user)

ChatRoutes == {GET_chat, PATCH_chat, DELETE_chat, POST_messages}

LookupLabels == {"get_chat", "patch_chat", "delete_chat", "post_messages_chat"}

\* C3: a request on one chat (GET, PATCH, DELETE, POST messages) whose chat is
\* absent or owned by another user finds nothing at its lookup and answers
\* 404 'Chat not found', the same in both cases, and no step of it changes
\* the chats or the messages of the store.
C3_ForeignChatIsNotFound ==
  [][\A p \in Procs :
       (/\ pc'[p] # pc[p]
        /\ req[p].op \in ChatRoutes
        /\ ~Owns(req[p].chatId, req[p].user)
        /\ pc[p] \in {"getChat"} \cup LookupLabels
        /\ pc[p] \in LookupLabels => LookupFailed(p))
       => /\ chats' = chats
          /\ messages' = messages
          /\ IF pc[p] = "getChat"
             THEN /\ pc'[p] \in LookupLabels
                  /\ out'[p].kind = "chat"
                  /\ out'[p].val = NoChat
             ELSE /\ pc'[p] = "done"
                  /\ out'[p].kind = "http"
                  /\ out'[p].val = NotFound.val]_vars

\* a request on a chat of another user has been answered 404
C3_Witness ==
  \E p \in Procs :
    /\ pc[p] = "done"
    /\ req[p].op \in ChatRoutes
    /\ OwnedByOther(req[p].chatId, req[p].user)
    /\ out[p].kind = "http"
    /\ out[p].val = NotFound.val
    /\ messages # <<>>

\* the concatenation of the content events of a stream
RECURSIVE ForwardedText(_)
ForwardedText(events) ==
  IF events = <<>> THEN ""
  ELSE (IF Head(events).type = "content" THEN Head(events).data ELSE "")
       \o ForwardedText(Tail(events))

LastEvent(p) == stream[p].events[Len(stream[p].events)]

\* a persisted send-message request is over and its upstream stream ended
\* without a failure
EndedWell(p) ==
  /\ pc[p] = "done"
  /\ Persisted(p)
  /\ stream[p].upstream = "ended"

C5_UpstreamFailurePersistsNothing ==
  \A p \in Procs :
    (pc[p] = "done" /\ Persisted(p) /\ stream[p].upstream = "failed") =>
      /\ LastEvent(p).type = "error"
      /\ Cardinality({i \in 1..Len(stream[p].events) :
                        stream[p].events[i].type = "error"}) = 1
      /\ \A i \in 1..Len(stream[p].events) : stream[p].events[i].type # "done"
      /\ stream[p].saved = <<>>
      /\ req[p].role # "assistant"
      /\ \A i \in 1..Len(messages) :
           messages[i].chat_id = req[p].chatId =>
             \/ messages[i].role # "assistant"
             \/ messages[i].id # req[p].newId

\* the upstream failed after fragments were forwarded
C5_Witness ==
  \E p \in Procs :
    /\ pc[p] = "done"
    /\ Persisted(p)
    /\ stream[p].upstream = "failed"
    /\ stream[p].assistantResponse # ""
    /\ LastEvent(p).type = "error"
    /\ \E i \in 1..Len(messages) : messages[i].chat_id = req[p].chatId

TerminalEvents(p) ==
  {i \in 1..Len(stream[p].events) : stream[p].events[i].type \in {"done", "error"}}

\* at most one terminal event, the last of the stream, present exactly when
\* the stream is closed
OneTerminalEvent(p) ==
  /\ Cardinality(TerminalEvents(p)) <= 1
  /\ TerminalEvents(p) \subseteq {Len(stream[p].events)}
  /\ stream[p].closed <=> TerminalEvents(p) # {}
  /\ stream[p].events # <<>> => stream[p].open

\* C6: an opened event stream, of the persisted or of the stateless route, is
\* eventually closed; it holds at most one terminal event (done or error),
\* which is its last event and is there exactly when the stream is closed.
C6_StreamEndsWithOneTerminalEvent ==
  /\ [](\A p \in Procs : OneTerminalEvent(p))
  /\ \A p \in Procs : stream[p].open ~> stream[p].closed

\* a stream of the stateless route is closed after several content events
C6_Witness ==
  \E p \in Procs :
    /\ req[p].op = POST_chat
    /\ stream[p].closed
    /\ Len(stream[p].events) >= 4
    /\ \E q \in Procs : Persisted(q) /\ stream[q].open /\ ~stream[q].closed

\* C7: a persisted send-message request whose upstream stream ended
\* successfully ends with done and holds no error event, whether or not the
\* write of the assistant message succeeded.
C7_StorageFailureStillDone ==
  \A p \in Procs :
    EndedWell(p) =>
      /\ LastEvent(p).type = "done"
      /\ \A i \in 1..Len(stream[p].events) : stream[p].events[i].type # "error"

\* C8: when a delete of an owned chat has returned, the store holds no message
\* of that chat, and a later listMessages on that chat id, by any user, has
\* returned the empty sequence.
C8_DeletedChatHasNoMessages ==
  \A p \in Procs :
    (pc[p] = "done" /\ req[p].chatId \in deleted) =>
      /\ (req[p].op \in DeleteOps /\ out[p].kind = "ok") =>
           MessagesOf(req[p].chatId) = <<>>
      /\ req[p].op \in ListOps =>
           (out[p].kind = "rows" /\ out[p].val = <<>>)

\* C9: with deletes that stop after any of their steps, every stored message
\* references a chat record that exists.
C9_NoMessageWithoutChat ==
  \A i \in 1..Len(messages) : \E ch \in chats : ch.id = messages[i].chat_id

\* a delete has stopped half way: it rejected after removing messages, and the
\* chat record is still there
C9_Witness ==
  \E p \in Procs :
    /\ pc[p] = "done"
    /\ req[p].op \in DeleteOps
    /\ out[p].kind = "threw"
    /\ req[p].chatId \in disturbed
    /\ DocExists(req[p].chatId)
    /\ \E a \in appended :
         a[2] = req[p].chatId /\ \A i \in 1..Len(messages) : messages[i].id # a[1]

AppendedTo(c) == {a[1] : a \in {b \in appended : b[2] = c}}

\* an append has inserted its row and has not returned yet
AppendInFlight(c) ==
  \E q \in Procs :
    /\ pc[q] \in {"addMessage_touchChat", "addUserMessage_updateDoc"}
    /\ req[q].chatId = c

\* C10: a listMessages by the owner of a chat that saw no delete and no
\* rejected append returns exactly the messages of the appends that returned,
\* in non-decreasing order of creation time.
C10_ListIsTheAppendsInOrder ==
  \A p \in Procs :
    (/\ pc[p] = "done"
     /\ req[p].op \in ListOps
     /\ Owns(req[p].chatId, req[p].user)
     /\ req[p].chatId \notin disturbed
     /\ ~AppendInFlight(req[p].chatId)) =>
      /\ out[p].kind = "rows"
      /\ Len(out[p].val) = Cardinality(AppendedTo(req[p].chatId))
      /\ {out[p].val[i].id : i \in 1..Len(out[p].val)} = AppendedTo(req[p].chatId)
      /\ \A i \in 1..Len(out[p].val) : \A j \in i..Len(out[p].val) :
           TsLeq(out[p].val[i].created_at, out[p].val[j].created_at)

\* two appends have returned and the list differs from the insertion order
C10_Witness ==
  \E p \in Procs :
    /\ pc[p] = "done"
    /\ req[p].op \in ListOps
    /\ out[p].kind = "rows"
    /\ Len(out[p].val) = 2
    /\ Cardinality(AppendedTo(req[p].chatId)) = 2
    /\ out[p].val[1].id > out[p].val[2].id

AppendCalls == {"addMessage", "addUserMessage"}

\* C11: when an append has returned, the updated_at the store holds for the
\* chat is not below the created_at it holds for any message of the chat,
\* the most recent one included.
C11_UpdatedAtCoversLastMessage ==
  \A p \in Procs :
    (pc[p] = "done" /\ req[p].op \in AppendCalls /\ out[p].kind = "id") =>
      \A ch \in chats :
        ch.id = req[p].chatId =>
          \A i \in 1..Len(messages) :
            messages[i].chat_id = ch.id =>
              TsLeq(messages[i].created_at, ch.updated_at)

\* C15: a send-message request made while no provider credential is
\* configured fails on the credential check before it calls anything else:
\* no step of it changes the store or opens a stream to the provider, and it
\* is answered with the configuration error.
C15_CredentialCheckedFirst ==
  [][\A p \in Procs :
       (/\ pc'[p] # pc[p]
        /\ req'[p].op \in {POST_messages, POST_chat}
        /\ req'[p].bodyOk
        /\ ~req'[p].apiKey
        /\ req'[p].op = POST_messages => Owns(req'[p].chatId, req'[p].user))
       => /\ chats' = chats
          /\ messages' = messages
          /\ ~stream'[p].open
          /\ pc'[p] = "done" =>
               /\ out'[p].kind = "http"
               /\ out'[p].val = Response(500, "API key not configured").val]_vars

\* C18: the touch step of an append, calls running one after another, leaves
\* the updated_at of the chat at or above the value it had, the first append
\* after the creation of the chat included.
C18_UpdatedAtNeverDecreases ==
  [][\A p \in Procs :
       (/\ pc'[p] # pc[p]
        /\ req[p].op \in AppendCalls
        /\ pc[p] \in {"addMessage_touchChat", "addUserMessage_updateDoc"})
       => \A ch \in chats : \A ch2 \in chats' :
            ch2.id = ch.id => TsLeq(ch.updated_at, ch2.updated_at)]_vars
\* C19: with appends to one chat running concurrently, under every
\* interleaving of their insert and touch steps, the message an append has
\* inserted is in the store, as it was written, while the other append runs,
\* when both have completed, and when a touch has failed.
C19_ConcurrentAppendsKeepMessages ==
  \A p \in Procs :
    (req[p].op \in AppendCalls /\ req[p].newId # 0) =>
      \E i \in 1..Len(messages) :
        /\ messages[i].id = req[p].newId
        /\ messages[i].chat_id = req[p].chatId
        /\ messages[i].role = req[p].role
        /\ messages[i].content = req[p].content
        /\ messages[i].created_at = req[p].ts

\* the touch of the append that inserted first has failed after the append
\* that inserted second completed: both messages are there
C19_Witness ==
  \E p \in Procs :
    /\ pc[p] = "done"
    /\ req[p].op \in AppendCalls
    /\ out[p].kind = "threw"
    /\ req[p].newId = 1
    /\ <<2, req[p].chatId>> \in appended
    /\ Len(messages) = 2
IsPrefix(a, b) == Len(a) <= Len(b) /\ SubSeq(b, 1, Len(a)) = a

ContentSizes(events) ==
  \A k \in 1..Len(events) :
    events[k].type = "content" => Len(events[k].data) \in 1..MiniChunk

\* C20: every content event carries 1 to 3 characters; an event enqueued is
\* the next 3 characters of the current upstream fragment, in order, and is
\* shorter only at the end of the fragment; the concatenation of the content
\* events is always a prefix of the accumulator and equals it between
\* fragments and when the upstream has finished.
C20_SubFragmentsRebuildTheAccumulator ==
  [][\A p \in Procs :
       stream'[p].open =>
         LET st == stream'[p]
             n == Len(st.events)
             text == ForwardedText(st.events) IN
         /\ ContentSizes(st.events)
         /\ Persisted(p) => IsPrefix(text, st.assistantResponse)
         /\ (Persisted(p) /\ (pc'[p] = "for_await" \/ st.upstream = "ended")) =>
              text = st.assistantResponse
         /\ (n = Len(stream[p].events) + 1 /\ st.events[n].type = "content") =>
              LET d == st.events[n].data IN
              /\ st.i % MiniChunk = 0
              /\ st.i + Len(d) <= Len(st.chunkText)
              /\ d = SubSeq(st.chunkText, st.i + 1, st.i + Len(d))
              /\ Len(d) < MiniChunk => st.i + Len(d) = Len(st.chunkText)]_vars

\* a fragment of seven characters went out as 3, 3 and 1 after a fragment of
\* two, and the upstream has finished
C20_Witness ==
  \E p \in Procs :
    /\ Persisted(p)
    /\ stream[p].upstream = "ended"
    /\ stream[p].assistantResponse = "ababcdefg"
    /\ Len(stream[p].events) >= 4
    /\ ForwardedText(stream[p].events) = stream[p].assistantResponse
TitleCalled(p) == pc[p] = "done" /\ out[p].kind = "title"

\* the first and the last position of s that hold no white space
FirstInk(s) == CHOOSE i \in 1..Len(s) :
  SubSeq(s, i, i) \notin WhiteSpace /\ \A j \in 1..(i - 1) : SubSeq(s, j, j) \in WhiteSpace

LastInk(s) == CHOOSE i \in 1..Len(s) :
  SubSeq(s, i, i) \notin WhiteSpace /\ \A j \in (i + 1)..Len(s) : SubSeq(s, j, j) \in WhiteSpace

\* r is the title the reference gives for s: with c the first 60 characters
\* of the trimmed s, newlines read as spaces, r is "New Chat" if c has less
\* than 10 characters, c and the ellipsis if it has 60, and c otherwise
IsReferenceTitle(s, r) ==
  LET blank == \A i \in 1..Len(s) : SubSeq(s, i, i) \in WhiteSpace
      lo == IF blank THEN 1 ELSE FirstInk(s)
      hi == IF blank THEN 0 ELSE LastInk(s)
      n == IF hi - lo + 1 > 60 THEN 60 ELSE hi - lo + 1
  IN IF n < 10 THEN r = "New Chat"
     ELSE /\ Len(r) = IF n = 60 THEN 63 ELSE n
          /\ \A k \in 1..n :
               SubSeq(r, k, k) = IF SubSeq(s, lo + k - 1, lo + k - 1) = "\n" THEN " "
                                 ELSE SubSeq(s, lo + k - 1, lo + k - 1)
          /\ n = 60 => SubSeq(r, 61, 63) = "..."

TitleOf(chatId) == (CHOOSE ch \in chats : ch.id = chatId).title

\* C17: a send-message request with autoTitle whose message is the first of
\* a chat titled "New Chat" sets the title to generateChatTitle(message), and
\* a request whose message is not the first of its chat leaves the title as
\* it is.
C17_AutoTitleOnlyOnFirstMessage ==
  [][\A p \in Procs :
       (req[p].op = POST_messages /\ req[p].autoTitle) =>
         LET c == req[p].chatId
             first == Len(MessagesOf(c)) = 1 IN
         /\ (pc[p] = "post_messages_added" /\ first /\ TitleOf(c) = "New Chat") =>
              /\ pc'[p] = "updateChatTitle"
              /\ req'[p].title = generateChatTitle(req[p].content)
         /\ (pc[p] = "updateChatTitle" /\ ~first) =>
              \A ch \in chats' : ch.id = c => ch.title = TitleOf(c)]_vars

\* a request has just arrived at the middleware of /api/chats
ArrivesAtChats(p) == pc[p] = "idle" /\ pc'[p] # "idle" /\ req'[p].op \in ProtectedRoutes

Development(p) == req'[p].NODE_ENV = "development"

\* the email resolveCaller gives the request of p, "" for anonymous: the
\* trusted proxy's email, else the override email where development mode is on
ResolvedEmail(p, development) ==
  LET headers == req'[p].headers IN
  IF headers.cfEmail # "" THEN headers.cfEmail
  ELSE IF development /\ headers.devEmail # "" THEN headers.devEmail
  ELSE ""

\* C13: a request to a route under /api/chats that resolves to no identity
\* is answered 401 'Authentication required'
\* at once: no stream is opened and no table of the store is written.
C13_AnonymousGets401 ==
  [][\A p \in Procs :
       (ArrivesAtChats(p) /\ ResolvedEmail(p, Development(p)) = "") =>
         /\ pc'[p] = "done"
         /\ out'[p] = Response(401, "Authentication required")
         /\ ~stream'[p].open
         /\ <<chats, messages, users, page>>' = <<chats, messages, users, page>>]_vars

\* C14: the identity of a request is the trusted proxy's email when that
\* header is present, also beside the override headers; without it the
\* identity is the override email where the deployment is one for
\* development, and the request is anonymous otherwise.
C14_OverrideOnlyInDevelopment ==
  [][\A p \in Procs :
       ArrivesAtChats(p) =>
         req'[p].authUser.email = ResolvedEmail(p, Development(p))]_vars

\* a was last written in a later second than b, whichever operation wrote
\* the value and in whichever form
WrittenLater(a, b) ==
  \/ a.updated_at[1] > b.updated_at[1]
  \/ a.updated_at[1] = b.updated_at[1] /\ a.updated_at[3] > b.updated_at[3]

\* C12: the list getUserChats returns holds the chats of the user, each
\* once and no other, and no chat of it stands behind a chat that was last
\* written earlier.
C12_ListIsNewestModifiedFirst ==
  \A p \in Procs :
    (pc[p] = "done" /\ req[p].op = "getUserChats" /\ out[p].kind = "chats") =>
      LET rows == out[p].val
          owned == {ch \in chats : ch.user_id = req[p].user} IN
      /\ {rows[i] : i \in 1..Len(rows)} = owned
      /\ Len(rows) = Cardinality(owned)
      /\ \A i, j \in 1..Len(rows) : i < j => ~WrittenLater(rows[j], rows[i])

\* the characters of s between its first and its last one that is no white
\* space: the length of the cleaned message before it is cut
CleanedLength(s) ==
  IF \A i \in 1..Len(s) : SubSeq(s, i, i) \in WhiteSpace THEN 0
  ELSE LastInk(s) - FirstInk(s) + 1

\* C22: a title ends with the ellipsis only if the cleaned message was cut,
\* that is, only if it had more than 60 characters.
C22_EllipsisOnlyWhenTruncated ==
  \A p \in Procs :
    TitleCalled(p) =>
      LET title == out[p].val IN
      (Len(title) > 3 /\ SubSeq(title, Len(title) - 2, Len(title)) = "...") =>
        CleanedLength(req[p].content) > 60

\* C21: the contents given to the provider are the stored messages of the
\* chat at the moment the context was read, one entry each, in the order of
\* the store, with the role 'model' for 'assistant' and 'user' for 'user'
\* and the content as text.
C21_HistoryIsTheStoredMessages ==
  [][\A p \in Procs :
       (pc[p] = "post_messages_all" /\ pc'[p] = "generateContentStream") =>
         LET contents == stream'[p].contents
             stored == SelectMessages(req[p].chatId) IN
         /\ Len(contents) = Len(MessagesOf(req[p].chatId))
         /\ \A k \in 1..Len(stored) :
              /\ contents[k].text = stored[k].content
              /\ contents[k].role = "model" <=> stored[k].role = "assistant"
              /\ contents[k].role = "user" <=> stored[k].role = "user"]_vars

\* the provider was given a user message, an answer and a user message
C21_Witness ==
  \E p \in Procs :
    /\ pc[p] = "generateContentStream"
    /\ Len(stream[p].contents) = 3
    /\ stream[p].contents[1].role = "user"
    /\ stream[p].contents[2] = [role |-> "model", text |-> "ab"]

\* the place of the message id in rows
PlaceOf(id, rows) == CHOOSE k \in 1..Len(rows) : rows[k].id = id

\* C27: the history a send-message request gives to the provider ends with
\* the user message the request has appended, and the answer it stores comes
\* after that user message in the messages of the chat.
C27_HistoryEndsWithOwnMessage ==
  [][\A p \in Procs :
       /\ (pc[p] = "post_messages_all" /\ pc'[p] = "generateContentStream") =>
            /\ out[p].val # <<>>
            /\ out[p].val[Len(out[p].val)].id = req[p].newId
       /\ (pc[p] = "addMessage_insert" /\ req[p].role = "assistant"
             /\ messages' # messages) =>
            LET rows == OrderByCreatedAt(
                          SelectSeq(messages', LAMBDA m : m.chat_id = req[p].chatId)) IN
            PlaceOf(req[p].newId, rows) < PlaceOf(nextMsg + 1, rows)
    ]_vars

\* C25: a send-message request answered with an error response instead of
\* a stream (404, 500) has stored no message and has left the chat record as
\* it was when the request looked it up.
C25_ErrorResponseLeavesStore ==
  \A p \in Procs :
    (pc[p] = "done" /\ req[p].op = POST_messages /\ ~stream[p].open
       /\ out[p].kind = "http" /\ out[p].val.status \in {404, 500}) =>
      /\ \A k \in 1..Len(messages) : messages[k].id # req[p].newId
      /\ \A ch \in chats :
           (ch.id = req[p].chatId /\ req[p].chat # NoChat) => ch = req[p].chat

\* C24: whatever a DELETE of a chat and the sends on it do to one another,
\* after every step each stored message has its chat record, and the insert
\* of an answer whose chat record is gone stores nothing.
C24_NoAnswerForDeletedChat ==
  [][/\ \A k \in 1..Len(messages') : \E ch \in chats' : ch.id = messages'[k].chat_id
     /\ \A p \in Procs :
          (pc[p] = "addMessage_insert" /\ req[p].role = "assistant"
             /\ req[p].chatId \in deleted /\ pc'[p] # pc[p]) =>
            messages' = messages]_vars

\* the chat of a stream was deleted while the stream ran: the upstream has
\* ended with text, nothing was saved and the stream ends with the error
C24_Witness ==
  \E p \in Procs :
    /\ Persisted(p) /\ stream[p].closed
    /\ req[p].chatId \in deleted
    /\ stream[p].upstream = "ended"
    /\ stream[p].assistantResponse # ""
    /\ stream[p].saved = <<>>
    /\ LastEvent(p).type = "error"

\* C26: requests of one user run ensureUser together: no statement of
\* ensureUser rejects (every request goes on to its handler), the table never
\* holds two rows of one id, and no row ever leaves the table.
C26_EnsureUserSucceedsOnce ==
  [][/\ \A p \in Procs :
          pc[p] \in {"ensureUser", "ensureUser_update", "ensureUser_insert"} =>
            pc'[p] # "onError"
     /\ \A u, v \in users' : u.id = v.id => u = v
     /\ \A u \in users : \E v \in users' : v.id = u.id]_vars

\* C23: in the authenticated page a send that has reached the model and
\* returns has stored exactly one assistant message when its stream ended
\* with a done event, and none when it failed (response not OK, no body, a
\* failed read, an error event): neither partial text nor error text.
C23_OneAnswerPerCompletedStream ==
  \A p \in Procs :
    LET run == page.run[p]
        added == StoredAnswers(run.chat) - run.base
        failed == run.thrown # "" \/ run.sawError # ""
    IN (page.variant = "AuthenticatedChatPage" /\ pc[p] = "page_returned"
          /\ run.fetched) =>
         /\ (run.sawDone /\ ~failed) => added = 1
         /\ (failed /\ ~run.sawDone) => added = 0

\* C28: on every page a send is accepted only while isGenerating is false,
\* and at most one invocation has a request to the model under way.
C28_OneGenerationAtATime ==
  [][/\ page'.sends # page.sends => ~page.isGenerating
     /\ Cardinality({p \in Procs : page'.run[p].fetched}) <= 1]_vars

\* C29: on every page a send whose stream carried an error event ends with
\* that error thrown to the handler, the handler's catch run, and no typing
\* cursor behind the text of its assistant message.
C29_ErrorEventFailsTheSend ==
  \A p \in Procs :
    LET run == page.run[p] IN
    (pc[p] = "page_returned" /\ run.sawError # "") =>
      /\ run.thrown = run.sawError
      /\ run.caught
      /\ \A i \in 1..Len(page.messages) :
           page.messages[i].id = run.assistant =>
             LET content == page.messages[i].content IN
             ~(Len(content) > 0 /\ SubSeq(content, Len(content), Len(content)) = Cursor)

\* C30: on the authenticated and the anonymous page a send that has created
\* its chat returns with its user message stored in that chat and the
\* conversation sent to the model.
C30_ImplicitChatGetsItsMessage ==
  \A p \in Procs :
    LET run == page.run[p] IN
    (page.variant \in StoredVariants /\ pc[p] = "page_returned" /\ run.created # 0) =>
      /\ \E i \in 1..Len(messages) :
           messages[i].chat_id = run.created /\ messages[i].role = "user"
      /\ run.fetched

====
